---- MODULE Spec2Model ----
(***************************************************************************)
(* A model of objfs (src/objfs.cc, the second translation unit of the      *)
(* file, lines 936-3198): a log-structured filesystem whose durable state  *)
(* is a sequence of data objects in an object store.                       *)
(*                                                                         *)
(* Abstractions: mtime, uid, gid and rdev are left out of the inode (no    *)
(* operation reads them back); a path is one of Paths; a write carries len *)
(* copies of one byte value, the number of the operation, so that the      *)
(* bytes of two writes differ.  Unsigned 32-bit values are kept as the     *)
(* signed value with the same bits.  Everything else is translated from    *)
(* the source statement by statement.                                      *)
(***************************************************************************)
EXTENDS Integers, Sequences, FiniteSets, TLC

\* ------------------------------------------------------------- bounds
MaxOps     == 3     \* operations in one run
MaxOff     == 2     \* highest file offset passed to write / truncate / read
MaxLen     == 3     \* longest write or read
MaxPutFail == 2     \* s3_put calls that fail in one run

Perms == {0, 1}

\* ------------------------------------------------------ program constants
OBJ_FILE    == 1
OBJ_DIR     == 2
OBJ_SYMLINK == 3
OBJ_OTHER   == 4

ENOENT    == 2
EIO       == 5
EEXIST    == 17
ENOTDIR   == 20
EISDIR    == 21
EINVAL    == 22
ENOTEMPTY == 39

SizeofLogRecord == 2
SizeofLogData   == 28
SizeofLogInode  == 36
SizeofLogTrunc  == 12
SizeofLogDelete == 9
SizeofLogSymlink == 5
SizeofLogRename == 14
SizeofLogCreate == 9
SizeofObjHeader == 20

\* TLC's integers are 32 bits wide.  A uint32_t is kept as the int32_t with
\* the same bits (so (uint32_t)-2 is -2) and a size_t as the ssize_t with the
\* same bits: equality, + and - agree with the unsigned arithmetic, and the
\* places that compare unsigned values by < test the sign explicitly.
U32(x) == x

\* ------------------------------------------------------------ utilities
Min(S) == CHOOSE x \in S : \A y \in S : x <= y
Max(S) == CHOOSE x \in S : \A y \in S : x >= y

EmptyMap == [x \in {} |-> 0]
MapPut(m, k, v) == [x \in (DOMAIN m) \cup {k} |-> IF x = k THEN v ELSE m[x]]
MapErase(m, k)  == [x \in (DOMAIN m) \ {k} |-> m[x]]

\* ------------------------------------------------------------ extent map
\* An extmap is a function from int64 keys (file offsets) to extents
\* [objnum, offset, len]; End stands for the_map.end().
End == -1

lower_bound(m, offset) ==
    IF \E k \in DOMAIN m : k >= offset
    THEN Min({k \in DOMAIN m : k >= offset})
    ELSE End

map_begin(m) == IF DOMAIN m = {} THEN End ELSE Min(DOMAIN m)
map_last(m)  == Max(DOMAIN m)
map_prev(m, k) == Max({j \in DOMAIN m : j < k})
map_next(m, k) ==
    IF \E j \in DOMAIN m : j > k THEN Min({j \in DOMAIN m : j > k}) ELSE End

\* a lookup that takes the byte after the end of the extent before offset as
\* part of that extent
lookup_closed(m, offset) ==
    LET it == lower_bound(m, offset) IN
    IF it = End THEN End
    ELSE IF it > offset /\ it # map_begin(m)
         THEN LET it0 == map_prev(m, it) IN
              IF offset <= it0 + m[it0].len THEN it0 ELSE it
         ELSE it

lookup(m, offset) ==
    LET it == lower_bound(m, offset) IN
    IF it = End THEN End
    ELSE IF it > offset /\ it # map_begin(m)
         THEN LET it0 == map_prev(m, it) IN
              IF offset < it0 + m[it0].len THEN it0 ELSE it
         ELSE it

\* the while loop of update: erase the extents fully overlapped, from it on
RECURSIVE erase_covered(_, _, _, _)
erase_covered(m, it, offset, e) ==
    IF it = End THEN [map |-> m, it |-> End]
    ELSE IF it >= offset /\ it + m[it].len <= offset + e.len
         THEN erase_covered(MapErase(m, it), map_next(m, it), offset, e)
         ELSE [map |-> m, it |-> it]

\* right-hand overlap: the extent at it starts inside the new one
trim_right(m, it, offset, e) ==
    IF it # End /\ it < offset + e.len
    THEN LET new_key == offset + e.len
             val == [m[it] EXCEPT !.len = U32(@ - (new_key - it)),
                                  !.offset = U32(@ + (new_key - it))]
         IN MapPut(MapErase(m, it), new_key, val)
    ELSE m

\* the predecessor of offset: bisected, or trimmed on its right
trim_left(m, offset, e) ==
    LET it == lower_bound(m, offset)
        first == map_begin(m)
    IN IF it = first THEN m
       ELSE LET key == IF it = End THEN map_last(m) ELSE map_prev(m, it)
                val == m[key]
            IN IF key < offset /\ key + val.len > offset + e.len
               THEN LET new_key == offset + e.len
                        new_len == U32(val.len - (new_key - key))
                        left  == [val EXCEPT !.len = U32(offset - key)]
                        right == [val EXCEPT !.offset = U32(@ + (new_key - key)),
                                             !.len = new_len]
                    IN MapPut(MapPut(m, key, left), new_key, right)
               ELSE IF key < offset /\ key + val.len > offset
                    THEN MapPut(m, key, [val EXCEPT !.len = U32(offset - key)])
                    ELSE m

update(m, offset, e) ==
    IF DOMAIN m = {} THEN MapPut(m, offset, e)
    ELSE LET key == map_last(m)
             val == m[key]
         IN IF offset = key + val.len /\ e.offset = U32(val.offset + val.len)
            THEN MapPut(m, key, [val EXCEPT !.len = U32(@ + e.len)])
            ELSE LET it == lower_bound(m, offset) IN
                 IF it = End THEN MapPut(m, offset, e)
                 ELSE LET r  == erase_covered(m, it, offset, e)
                          m2 == trim_right(r.map, r.it, offset, e)
                          m3 == trim_left(m2, offset, e)
                      IN MapPut(m3, offset, e)

erase(m, offset) == MapErase(m, offset)


\* ------------------------------------------------------------- log records
\* A record keeps its fields, the 12-bit len field of its header (len) and
\* the number of bytes make_record appended to the meta buffer (nbytes).
S_IFDIR  == "S_IFDIR"
S_IFREG  == "S_IFREG"
S_IFLNK  == "S_IFLNK"
S_IFIFO  == "S_IFIFO"

Mode(fmt, perm) == [fmt |-> fmt, perm |-> perm]

\* write_inode
LogInode(f) ==
    [type |-> "LOG_INODE", inum |-> f.inum, mode |-> f.mode,
     len |-> SizeofLogInode, nbytes |-> SizeofLogRecord + SizeofLogInode]

\* write_dirent
LogCreate(parent_inum, leaf, inum) ==
    [type |-> "LOG_CREATE", parent_inum |-> U32(parent_inum), inum |-> U32(inum),
     name |-> leaf,
     len |-> (SizeofLogRecord + SizeofLogCreate + 1) - SizeofLogRecord,
     nbytes |-> SizeofLogRecord + SizeofLogCreate + 1]

\* do_log_delete
LogDelete(parent_inum, inum, name) ==
    [type |-> "LOG_DELETE", parent |-> U32(parent_inum), inum |-> U32(inum),
     name |-> name,
     len |-> SizeofLogDelete + 1,
     nbytes |-> SizeofLogRecord + SizeofLogDelete + 1]

\* do_log_trunc
LogTrunc(inum, offset) ==
    [type |-> "LOG_TRUNC", inum |-> U32(inum), new_size |-> offset,
     len |-> SizeofLogTrunc, nbytes |-> SizeofLogRecord + SizeofLogTrunc]

\* do_log_rename
LogRename(src_inum, src_parent, dst_parent, src_leaf, dst_leaf) ==
    [type |-> "LOG_RENAME", inum |-> U32(src_inum), parent1 |-> U32(src_parent),
     parent2 |-> U32(dst_parent), name1 |-> src_leaf, name2 |-> dst_leaf,
     len |-> (SizeofLogRecord + SizeofLogRename + 2) - SizeofLogRecord,
     nbytes |-> SizeofLogRecord + SizeofLogRename + 2]

\* write_symlink: the len field is given the whole record length
LogSymlink(inum, target) ==
    [type |-> "LOG_SYMLNK", inum |-> U32(inum), target |-> target,
     len |-> SizeofLogRecord + SizeofLogSymlink + 1,
     nbytes |-> SizeofLogRecord + SizeofLogSymlink + 1]

\* the record fs_write builds
LogData(inum, obj_offset, file_offset, size, len) ==
    [type |-> "LOG_DATA", inum |-> U32(inum), obj_offset |-> U32(obj_offset),
     file_offset |-> file_offset, size |-> size, dlen |-> U32(len),
     len |-> SizeofLogData, nbytes |-> SizeofLogRecord + SizeofLogData]

RECURSIVE MetaBytes(_)
MetaBytes(meta) ==
    IF meta = <<>> THEN 0 ELSE Head(meta).nbytes + MetaBytes(Tail(meta))


\* ------------------------------------------------------------------ inodes
\* fs_obj and its subclasses as one record; the fields a subclass lacks stay
\* empty.  inum is the object's own inum field, which need not be the key
\* under which inode_map holds it.
NewObj(type, inum, mode) ==
    [type |-> type, inum |-> inum, mode |-> mode, size |-> 0,
     extents |-> EmptyMap, dirents |-> EmptyMap, target |-> ""]

ToInt32(x) == x

\* ------------------------------------------------------------------ replay
\* The replay handlers work on st = [imap, next]: inode_map and next_inode.
\* Each returns [ok, st]; ok = FALSE is the handler's return of -1.
update_inode(obj, in) == [obj EXCEPT !.inum = in.inum, !.mode = in.mode]

read_log_inode(st, in) ==
    IF in.inum \in DOMAIN st.imap
    THEN [ok |-> TRUE,
          st |-> [st EXCEPT !.imap = MapPut(@, in.inum, update_inode(@[in.inum], in))]]
    ELSE LET type == IF in.mode.fmt = S_IFDIR THEN OBJ_DIR
                     ELSE IF in.mode.fmt = S_IFREG THEN OBJ_FILE
                     ELSE IF in.mode.fmt = S_IFLNK THEN OBJ_SYMLINK
                     ELSE OBJ_OTHER
         IN [ok |-> TRUE,
             st |-> [st EXCEPT !.imap = MapPut(@, in.inum, NewObj(type, in.inum, in.mode))]]

\* a do_trunc loop that treats the first extent lookup finds and stops
trunc_once(m, new_size) ==
    LET it == lookup(m, new_size) IN
    IF it = End THEN m
    ELSE IF it < new_size
         THEN update(m, it, [m[it] EXCEPT !.len = U32(new_size - it)])
         ELSE erase(m, it)

RECURSIVE trunc_loop(_, _)
trunc_loop(m, new_size) ==
    LET it == lookup(m, new_size) IN
    IF it = End THEN m
    ELSE IF it < new_size
         THEN trunc_loop(update(m, it, [m[it] EXCEPT !.len = U32(new_size - it)]), new_size)
         ELSE trunc_loop(erase(m, it), new_size)

do_trunc(f, new_size) ==
    [f EXCEPT !.extents = trunc_loop(@, new_size), !.size = new_size]

read_log_trunc(st, tr) ==
    IF tr.inum \notin DOMAIN st.imap THEN [ok |-> FALSE, st |-> st]
    ELSE LET f == st.imap[tr.inum] IN
         IF f.size < tr.new_size THEN [ok |-> FALSE, st |-> st]
         ELSE [ok |-> TRUE,
               st |-> [st EXCEPT !.imap = MapPut(@, tr.inum, do_trunc(f, tr.new_size))]]

read_log_delete(st, rm) ==
    IF rm.parent \notin DOMAIN st.imap THEN [ok |-> FALSE, st |-> st]
    ELSE IF rm.inum \notin DOMAIN st.imap THEN [ok |-> FALSE, st |-> st]
    ELSE LET erased == MapErase(st.imap, rm.inum) IN
         [ok |-> TRUE,
          st |-> [st EXCEPT !.imap =
                    IF rm.parent \in DOMAIN erased
                    THEN MapPut(erased, rm.parent,
                                [erased[rm.parent] EXCEPT !.dirents = MapErase(@, rm.name)])
                    ELSE erased]]

read_log_symlink(st, sl) ==
    IF sl.inum \notin DOMAIN st.imap THEN [ok |-> FALSE, st |-> st]
    ELSE [ok |-> TRUE,
          st |-> [st EXCEPT !.imap = MapPut(@, sl.inum, [@[sl.inum] EXCEPT !.target = sl.target])]]

\* The third test compares parent2's iterator with parent1's end(): when the
\* two directories differ the iterators never compare equal, so the handler
\* returns -1 whether name2 exists or not.
read_log_rename(st, mv) ==
    IF mv.parent1 \notin DOMAIN st.imap THEN [ok |-> FALSE, st |-> st]
    ELSE IF mv.parent2 \notin DOMAIN st.imap THEN [ok |-> FALSE, st |-> st]
    ELSE LET parent1 == st.imap[mv.parent1]
             parent2 == st.imap[mv.parent2]
         IN IF mv.name1 \notin DOMAIN parent1.dirents THEN [ok |-> FALSE, st |-> st]
            ELSE IF parent1.dirents[mv.name1] # mv.inum THEN [ok |-> FALSE, st |-> st]
            ELSE IF mv.parent1 # mv.parent2 \/ mv.name2 \in DOMAIN parent2.dirents
                 THEN [ok |-> FALSE, st |-> st]
            ELSE LET m1 == MapPut(st.imap, mv.parent1,
                                  [parent1 EXCEPT !.dirents = MapErase(@, mv.name1)])
                     m2 == MapPut(m1, mv.parent2,
                                  [m1[mv.parent2] EXCEPT !.dirents = MapPut(@, mv.name2, mv.inum)])
                 IN [ok |-> TRUE, st |-> [st EXCEPT !.imap = m2]]

read_log_data(st, idx, d) ==
    IF d.inum \notin DOMAIN st.imap THEN [ok |-> FALSE, st |-> st]
    ELSE LET f == st.imap[d.inum]
             e == [objnum |-> U32(idx), offset |-> d.obj_offset, len |-> d.dlen]
         IN [ok |-> TRUE,
             st |-> [st EXCEPT !.imap =
                       MapPut(@, d.inum, [f EXCEPT !.extents = update(@, d.file_offset, e),
                                                   !.size = d.size])]]

read_log_create(st, c) ==
    IF c.parent_inum \notin DOMAIN st.imap THEN [ok |-> FALSE, st |-> st]
    ELSE LET d == st.imap[c.parent_inum]
             n == ToInt32(c.inum + 1)
         IN [ok |-> TRUE,
             st |-> [imap |-> MapPut(st.imap, c.parent_inum,
                                     [d EXCEPT !.dirents = MapPut(@, c.name, c.inum)]),
                     next |-> IF n > st.next THEN n ELSE st.next]]

read_record(st, idx, rec) ==
    CASE rec.type = "LOG_INODE"  -> read_log_inode(st, rec)
      [] rec.type = "LOG_TRUNC"  -> read_log_trunc(st, rec)
      [] rec.type = "LOG_DELETE" -> read_log_delete(st, rec)
      [] rec.type = "LOG_SYMLNK" -> read_log_symlink(st, rec)
      [] rec.type = "LOG_RENAME" -> read_log_rename(st, rec)
      [] rec.type = "LOG_DATA"   -> read_log_data(st, idx, rec)
      [] rec.type = "LOG_CREATE" -> read_log_create(st, rec)
      [] rec.type = "LOG_NULL"   -> [ok |-> TRUE, st |-> st]
      [] OTHER                   -> [ok |-> FALSE, st |-> st]

\* the while loop of read_hdr.  A record advances the cursor by 2 + len; one
\* whose len field is not its payload length leaves the cursor inside the
\* next record, which the model reports as a failed record.
RECURSIVE read_records(_, _, _)
read_records(st, idx, recs) ==
    IF recs = <<>> THEN [ok |-> TRUE, st |-> st]
    ELSE LET advance(r) ==
                 IF ~r.ok THEN r
                 ELSE IF Head(recs).len + SizeofLogRecord # Head(recs).nbytes
                      THEN [ok |-> FALSE, st |-> r.st]
                      ELSE read_records(r.st, idx, Tail(recs))
         IN advance(read_record(st, idx, Head(recs)))

OBJFS_MAGIC == 1397113423

\* read_hdr(idx, data, len): data holds the first len bytes of object oh.
\* Returns [ret, st]: ret = 0, the bytes wanted, or (size_t)-1.
SIZE_MAX == -1
read_hdr(st, idx, oh, len) ==
    IF oh.hdr_len > len THEN [ret |-> oh.hdr_len, st |-> st]
    ELSE IF oh.magic # OBJFS_MAGIC \/ oh.version # 1 \/ oh.type # 1
         THEN [ret |-> SIZE_MAX, st |-> st]
    ELSE LET done(r) == [ret |-> IF r.ok THEN 0 ELSE SIZE_MAX, st |-> r.st]
         IN done(read_records(st, idx, oh.meta))


\* ------------------------------------------------------------ object store
\* The store maps an object's key to the object.  A key "{prefix}.{index:08x}"
\* is kept as the number index; KeyDigits gives the eight hexadecimal digits
\* sprintf writes for it.
Pow16(n) == IF n = 0 THEN 1 ELSE IF n = 1 THEN 16 ELSE IF n = 2 THEN 256
            ELSE IF n = 3 THEN 4096 ELSE IF n = 4 THEN 65536
            ELSE IF n = 5 THEN 1048576 ELSE IF n = 6 THEN 16777216
            ELSE 268435456

KeyDigits(index) == [i \in 1..8 |-> (index \div Pow16(8 - i)) % 16]

\* sscanf(key, "%*[^.].%d", &n): the decimal digits that start the suffix.
\* When the suffix starts with a letter nothing is stored and n keeps the
\* indeterminate value it had (garbage).
RECURSIVE scan_decimal(_, _, _)
scan_decimal(digits, i, acc) ==
    IF i > Len(digits) \/ digits[i] > 9 THEN acc
    ELSE scan_decimal(digits, i + 1, acc * 10 + digits[i])

sscanf_index(index, garbage) ==
    LET digits == KeyDigits(index) IN
    IF digits[1] > 9 THEN garbage ELSE scan_decimal(digits, 1, 0)

\* s3_put: the object stored under the key, replacing what was there
s3_put(st, index, obj) == MapPut(st, index, obj)

\* s3_list: the keys under the prefix, in the store's (lexicographic) order
RECURSIVE s3_list(_)
s3_list(st) ==
    IF DOMAIN st = {} THEN <<>>
    ELSE <<Min(DOMAIN st)>> \o s3_list(MapErase(st, Min(DOMAIN st)))

\* the object write_everything_out assembles
MakeObject(index, meta, data) ==
    [magic |-> OBJFS_MAGIC, version |-> 1, type |-> 1,
     hdr_len |-> MetaBytes(meta) + SizeofObjHeader, this_index |-> index,
     meta |-> meta, data |-> data]

\* the object a fresh filesystem starts from: the root directory's inode
RootObject == MakeObject(0, <<LogInode(NewObj(OBJ_DIR, 1, Mode(S_IFDIR, 0)))>>, <<>>)

\* get_offset: [ret, offs]: the header length of object index, memoized
get_offset(st, offs, index) ==
    IF index \in DOMAIN offs THEN [ret |-> offs[index], offs |-> offs]
    ELSE IF index \notin DOMAIN st THEN [ret |-> -1, offs |-> offs]
    ELSE [ret |-> st[index].hdr_len, offs |-> MapPut(offs, index, st[index].hdr_len)]

\* ------------------------------------------------------------------ mount
\* the for loop of fs_init over the listed keys.  ms = [imap, next, index,
\* offs, ok]; ok = FALSE when fs_init throws.
RECURSIVE init_loop(_, _, _, _)
init_loop(ms, st, keys, garbage) ==
    IF keys = <<>> \/ ~ms.ok THEN ms
    ELSE LET replayed(n, off, r) ==
                 init_loop([imap |-> r.st.imap, next |-> r.st.next,
                            index |-> n + 1, offs |-> off.offs, ok |-> TRUE],
                           st, Tail(keys), garbage)
             located(n, off) ==
                 IF off.ret < 0 THEN [ms EXCEPT !.ok = FALSE]
                 ELSE replayed(n, off,
                               read_hdr([imap |-> ms.imap, next |-> ms.next], n,
                                        st[Head(keys)], off.ret))
             scanned(n) == located(n, get_offset(st, ms.offs, n))
         IN scanned(sscanf_index(Head(keys), garbage))


\* ------------------------------------------------------------------- state
VARIABLES
    inode_map,      \* inum -> fs_obj
    dirty_inodes,   \* the inode_map keys of the objects the set points to
    freed,          \* key -> the last contents of a deleted object that
                    \* dirty_inodes still points to
    next_inode,
    this_index,
    meta_log,       \* the records between meta_log_head and meta_log_tail
    data_log,       \* the bytes between data_log_head and data_log_tail
    data_offsets,   \* object index -> hdr_len
    store,          \* the object store: index -> object
    mounted,        \* between fs_init and fs_teardown
    nops, nfail,    \* operations done, s3_put calls failed (bounded)
    lastop, ret,    \* the last operation and what it returned
    shadow,         \* history: inum -> offset -> the byte last written there
    nput,           \* history: s3_put calls issued
    flushed,        \* history: indices of the flushes completed in this mount
    global_mutex,   \* 0, or the host thread that holds the mutex
    callers,        \* host thread -> the call it is in and how far it is
    fd_cache,       \* object index -> openfile (the local-file variant)
    fd_fifo,        \* the openfiles in the order of std::queue
    fd_open,        \* the descriptors the process has open
    fd_hist         \* history: the last get_fd call and the state before it

vars == <<inode_map, dirty_inodes, freed, next_inode, this_index, meta_log,
          data_log, data_offsets, store, mounted, nops, nfail, lastop, ret,
          shadow, nput, flushed, global_mutex, callers, fd_cache, fd_fifo,
          fd_open, fd_hist>>

\* The host threads that call into the filesystem, and a thread that is in
\* no call.
Threads == {1, 2}

Idle == [pc |-> "idle", op |-> "none", path |-> <<>>, inum |-> 0,
         parent |-> 0, leaf |-> ""]

NoCalls == global_mutex = 0 /\ callers = [t \in Threads |-> Idle]

\* the host has one operation in progress at a time
OneCaller == UNCHANGED <<global_mutex, callers>>

\* The cache of open object files of the variant that keeps its objects in
\* local files; the variant that keeps them in the object store opens none.
fds == <<fd_cache, fd_fifo, fd_open, fd_hist>>

NoCall == [n |-> 0, index |-> -1, ret |-> 0, opened |-> FALSE, closed |-> {},
           cache |-> EmptyMap, fifo |-> <<>>, age0 |-> EmptyMap, age |-> EmptyMap]

NoneOpen ==
    /\ fd_cache = EmptyMap
    /\ fd_fifo = <<>>
    /\ fd_open = {}
    /\ fd_hist = NoCall

\* meta_log_len and data_log_len, scaled down from 64 KiB and 16 MiB so that
\* a few operations fill the staging buffers; the cut policy only compares.
meta_log_len == 120
data_log_len == 4

meta_offset == MetaBytes(meta_log)
data_offset == Len(data_log)

\* ---------------------------------------------------------- path resolution
Paths == {<<"a">>, <<"b">>, <<"a", "b">>}

split(path) == SelectSeq(path, LAMBDA token : token # "")

RECURSIVE vec_walk(_, _, _)
vec_walk(imap, inum, pathvec) ==
    IF pathvec = <<>> THEN ToInt32(inum)
    ELSE IF inum \notin DOMAIN imap THEN -ENOENT
    ELSE IF imap[inum].type # OBJ_DIR THEN -ENOTDIR
    ELSE IF Head(pathvec) \notin DOMAIN imap[inum].dirents THEN -ENOENT
    ELSE vec_walk(imap, imap[inum].dirents[Head(pathvec)], Tail(pathvec))

vec_2_inum(imap, pathvec) == vec_walk(imap, 1, pathvec)

path_2_inum(imap, path) == vec_2_inum(imap, split(path))

path_2_inum2(imap, path) ==
    LET pathvec == split(path) IN
    [inum   |-> vec_2_inum(imap, pathvec),
     parent |-> vec_2_inum(imap, SubSeq(pathvec, 1, Len(pathvec) - 1)),
     leaf   |-> pathvec[Len(pathvec)]]

\* --------------------------------------------------------------- the flush
\* What the environment decides during a flush: whether each of the two
\* s3_put calls succeeds, and what write_inode reads through a pointer to a
\* deleted object (its last contents, or memory the allocator has reused).
Env(dirty, imap) ==
    [p1 : BOOLEAN, p2 : BOOLEAN,
     junk : IF dirty \subseteq DOMAIN imap THEN {"stale"} ELSE {"stale", "reused"}]

Fails(env) == (IF env.p1 THEN 0 ELSE 1) + (IF env.p2 THEN 0 ELSE 1)

RECURSIVE SetToSeq(_)
SetToSeq(S) == IF S = {} THEN <<>> ELSE <<Min(S)>> \o SetToSeq(S \ {Min(S)})

\* the object write_inode reads through a pointer of dirty_inodes
Pointee(imap, frd, env, key) ==
    IF key \in DOMAIN imap THEN imap[key]
    ELSE IF env.junk = "stale" THEN frd[key]
    ELSE NewObj(OBJ_OTHER, 0, Mode(S_IFIFO, 0))

\* a flush that writes the record of the first dirty inode only
DirtyRecords_first(imap, frd, dirty, env) ==
    LET keys == SetToSeq(dirty) IN
    [i \in 1..(IF keys = <<>> THEN 0 ELSE 1) |->
       LogInode(Pointee(imap, frd, env, keys[i]))]

DirtyRecords(imap, frd, dirty, env) ==
    LET keys == SetToSeq(dirty) IN
    [i \in 1..Len(keys) |-> LogInode(Pointee(imap, frd, env, keys[i]))]

\* a write_everything_out that resets the tails and returns without testing
\* the status of either s3_put
write_everything_out_unchecked(imap, frd, dirty, meta, data, index, st, env) ==
    LET meta2 == meta \o DirtyRecords(imap, frd, dirty, env)
        obj   == MakeObject(index, meta2, data)
        st1   == IF env.p1 THEN s3_put(st, index, obj) ELSE st
        st2   == IF env.p2 THEN s3_put(st1, index, obj) ELSE st1
    IN [meta  |-> <<>>,
        data  |-> <<>>,
        index |-> index + 1,
        store |-> st2,
        threw |-> FALSE,
        puts  |-> 2]

\* write_everything_out: the staged state after it, and threw = TRUE when it
\* leaves by throw "put failed"
write_everything_out(imap, frd, dirty, meta, data, index, st, env) ==
    LET meta2 == meta \o DirtyRecords(imap, frd, dirty, env)
        obj   == MakeObject(index, meta2, data)
        st1   == IF env.p1 THEN s3_put(st, index, obj) ELSE st
        st2   == IF env.p2 THEN s3_put(st1, index, obj) ELSE st1
    IN [meta  |-> IF env.p2 THEN <<>> ELSE meta2,
        data  |-> IF env.p2 THEN <<>> ELSE data,
        index |-> index + 1,
        store |-> st2,
        threw |-> ~env.p2,
        puts  |-> 2]

\* a maybe_write that flushes as soon as a staging buffer is full
must_write_at_cap(meta, data) ==
    MetaBytes(meta) >= meta_log_len \/ Len(data) >= data_log_len

\* maybe_write's test
must_write(meta, data) ==
    MetaBytes(meta) > meta_log_len \/ Len(data) > data_log_len

\* The process dies (a null fs_obj* is dereferenced, or a throw reaches no
\* handler): the store stays as st, and the next process starts from the
\* initial globals.
Crash(op, st, nf, np) ==
    /\ inode_map' = EmptyMap
    /\ dirty_inodes' = {}
    /\ freed' = EmptyMap
    /\ next_inode' = 2
    /\ this_index' = 0
    /\ meta_log' = <<>>
    /\ data_log' = <<>>
    /\ data_offsets' = EmptyMap
    /\ mounted' = FALSE
    /\ shadow' = EmptyMap
    /\ flushed' = <<>>
    /\ ret' = 0
    /\ lastop' = "died"
    /\ nops' = nops + 1
    /\ store' = st
    /\ nfail' = nf
    /\ nput' = np

Die(op) == Crash(op, store, nfail, nput)

\* The end of an operation that has changed the state to (imap, dirty, frd,
\* next, meta, data, shd): flush when asked to (force) or when maybe_write
\* finds a staging buffer over its cap, then return retval.  No function of
\* the file catches "put failed": either the caller of the operation does,
\* and sees -EIO with the state as the throw left it, or the process dies.
Finish(op, imap, dirty, frd, next, meta, data, shd, retval, force, maybe) ==
    IF force \/ (maybe /\ must_write(meta, data))
    THEN \E env \in Env(dirty, imap) :
           /\ nfail + Fails(env) <= MaxPutFail
           /\ \E w \in {write_everything_out(imap, frd, dirty, meta, data,
                                             this_index, store, env)} :
                \/ /\ inode_map' = imap
                   /\ dirty_inodes' = {}
                   /\ freed' = EmptyMap
                   /\ next_inode' = next
                   /\ this_index' = w.index
                   /\ meta_log' = w.meta
                   /\ data_log' = w.data
                   /\ store' = w.store
                   /\ nfail' = nfail + Fails(env)
                   /\ nput' = nput + w.puts
                   /\ flushed' = IF w.threw THEN flushed
                                 ELSE Append(flushed, this_index)
                   /\ ret' = IF w.threw THEN -EIO ELSE retval
                   /\ shadow' = shd
                   /\ lastop' = op
                   /\ nops' = nops + 1
                   /\ UNCHANGED <<data_offsets, mounted>>
                \/ /\ w.threw
                   /\ Crash(op, w.store, nfail + Fails(env), nput + w.puts)
    ELSE /\ inode_map' = imap
         /\ dirty_inodes' = dirty
         /\ freed' = frd
         /\ next_inode' = next
         /\ meta_log' = meta
         /\ data_log' = data
         /\ shadow' = shd
         /\ ret' = retval
         /\ lastop' = op
         /\ nops' = nops + 1
         /\ UNCHANGED <<this_index, store, nfail, nput, flushed, data_offsets,
                        mounted>>

\* an operation that returns retval and changes nothing
Return(op, retval) ==
    /\ ret' = retval
    /\ lastop' = op
    /\ nops' = nops + 1
    /\ UNCHANGED <<inode_map, dirty_inodes, freed, next_inode, this_index,
                   meta_log, data_log, data_offsets, store, mounted, nfail,
                   shadow, nput, flushed>>

Ready == mounted /\ nops < MaxOps


\* --------------------------------------------------------------- operations
Larger(a, b) == IF a > b THEN a ELSE b

\* history: the bytes a write stores, by file offset
ShadowWrite(shd, inum, offset, len, byte) ==
    LET old == IF inum \in DOMAIN shd THEN shd[inum] ELSE EmptyMap
    IN MapPut(shd, inum,
              [o \in (DOMAIN old) \cup {offset + i : i \in 0..(len - 1)} |->
                 IF o >= offset /\ o < offset + len THEN byte ELSE old[o]])

ShadowTrunc(shd, inum, new_size) ==
    IF inum \in DOMAIN shd
    THEN MapPut(shd, inum, [o \in {x \in DOMAIN shd[inum] : x < new_size} |-> shd[inum][o]])
    ELSE shd

\* the bytes of a write are len copies of byte
\* fs_write.  make_record copies the bytes to data_log_tail without looking
\* at the size of the buffer: a copy that passes its end either goes through
\* or ends the process.
fs_write(path, byte, len, offset) ==
    /\ Ready
    /\ OneCaller
    /\ UNCHANGED fds
    /\ LET inum == path_2_inum(inode_map, path) IN
       IF inum < 0 THEN Return("write", inum)
       ELSE IF inum \notin DOMAIN inode_map THEN Die("write")
       ELSE LET f == inode_map[inum] IN
            IF f.type # OBJ_FILE THEN Return("write", -EISDIR)
            ELSE LET new_size   == Larger(offset + len, f.size)
                     obj_offset == data_offset
                     rec == LogData(inum, obj_offset, offset, new_size, len)
                     e   == [objnum |-> U32(this_index), offset |-> U32(obj_offset),
                             len |-> U32(len)]
                     f2  == [f EXCEPT !.extents = update(@, offset, e)]
                 IN \/ Finish("write", MapPut(inode_map, inum, f2),
                              dirty_inodes \cup {inum}, freed, next_inode,
                              Append(meta_log, rec),
                              data_log \o [i \in 1..len |-> byte],
                              ShadowWrite(shadow, inum, offset, len, byte),
                              len, FALSE, TRUE)
                    \/ /\ data_offset + len > data_log_len
                       /\ Die("write")

\* a create_node that takes its inum from next_inode before it looks at the
\* path, so that a failed call uses an inum up
create_node_early(op, path, mode, type) ==
    LET r == path_2_inum2(inode_map, path) IN
    IF r.inum >= 0
    THEN Finish(op, inode_map, dirty_inodes, freed, next_inode + 1, meta_log,
                data_log, shadow, -EEXIST, FALSE, FALSE)
    ELSE IF r.parent < 0 THEN Return(op, r.parent)
    ELSE IF r.parent \notin DOMAIN inode_map THEN Die(op)
    ELSE LET dir == inode_map[r.parent] IN
         IF dir.type # OBJ_DIR THEN Return(op, -ENOTDIR)
         ELSE LET inum == next_inode
                  f    == NewObj(type, inum, mode)
                  m1   == MapPut(inode_map, inum, f)
                  m2   == MapPut(m1, r.parent,
                                 [m1[r.parent] EXCEPT !.dirents = MapPut(@, r.leaf, inum)])
              IN Finish(op, m2, dirty_inodes \cup {r.parent}, freed, next_inode + 1,
                        meta_log \o <<LogInode(f), LogCreate(r.parent, r.leaf, inum)>>,
                        data_log, shadow, 0, FALSE, TRUE)

\* create_node, with the lock fs_create takes or fs_mknod does not
create_node(op, path, mode, type) ==
    LET r == path_2_inum2(inode_map, path) IN
    IF r.inum >= 0 THEN Return(op, -EEXIST)
    ELSE IF r.parent < 0 THEN Return(op, r.parent)
    ELSE IF r.parent \notin DOMAIN inode_map THEN Die(op)
    ELSE LET dir == inode_map[r.parent] IN
         IF dir.type # OBJ_DIR THEN Return(op, -ENOTDIR)
         ELSE LET inum == next_inode
                  f    == NewObj(type, inum, mode)
                  m1   == MapPut(inode_map, inum, f)
                  m2   == MapPut(m1, r.parent,
                                 [m1[r.parent] EXCEPT !.dirents = MapPut(@, r.leaf, inum)])
              IN Finish(op, m2, dirty_inodes \cup {r.parent}, freed, next_inode + 1,
                        meta_log \o <<LogInode(f), LogCreate(r.parent, r.leaf, inum)>>,
                        data_log, shadow, 0, FALSE, TRUE)

fs_create(path, perm) ==
    /\ Ready
    /\ OneCaller
    /\ UNCHANGED fds
    /\ create_node("create", path, Mode(S_IFREG, perm), OBJ_FILE)

fs_mknod(path, perm) ==
    /\ Ready
    /\ OneCaller
    /\ UNCHANGED fds
    /\ create_node("mknod", path, Mode(S_IFIFO, perm), OBJ_OTHER)

fs_mkdir(path, perm) ==
    /\ Ready
    /\ OneCaller
    /\ UNCHANGED fds
    /\ LET r == path_2_inum2(inode_map, path) IN
       IF r.inum >= 0 THEN Return("mkdir", -EEXIST)
       ELSE IF r.parent < 0 THEN Return("mkdir", r.parent)
       ELSE IF r.parent \notin DOMAIN inode_map THEN Die("mkdir")
       ELSE LET parent == inode_map[r.parent] IN
            IF parent.type # OBJ_DIR THEN Return("mkdir", -ENOTDIR)
            ELSE LET inum == next_inode
                     dir  == NewObj(OBJ_DIR, inum, Mode(S_IFDIR, perm))
                     m1   == MapPut(inode_map, inum, dir)
                     m2   == MapPut(m1, r.parent,
                                    [m1[r.parent] EXCEPT !.dirents = MapPut(@, r.leaf, inum)])
                 IN Finish("mkdir", m2, dirty_inodes \cup {r.parent}, freed,
                           next_inode + 1,
                           meta_log \o <<LogInode(dir), LogCreate(r.parent, r.leaf, inum)>>,
                           data_log, shadow, 0, FALSE, TRUE)

\* a fs_rmdir that does not look at the directory's entries
fs_rmdir_unchecked(path) ==
    /\ Ready
    /\ OneCaller
    /\ UNCHANGED fds
    /\ LET r == path_2_inum2(inode_map, path) IN
       IF r.inum < 0 THEN Return("rmdir", -ENOENT)
       ELSE IF r.parent < 0 THEN Return("rmdir", r.parent)
       ELSE IF r.inum \notin DOMAIN inode_map THEN Die("rmdir")
       ELSE LET dir == inode_map[r.inum] IN
            IF dir.type # OBJ_DIR THEN Return("rmdir", -ENOTDIR)
            ELSE LET m1 == MapErase(inode_map, r.inum)
                     m2 == MapPut(m1, r.parent,
                                  [m1[r.parent] EXCEPT !.dirents = MapErase(@, r.leaf)])
                     frd == IF r.inum \in dirty_inodes
                            THEN MapPut(freed, r.inum, dir) ELSE freed
                 IN Finish("rmdir", m2, dirty_inodes \cup {r.parent}, frd, next_inode,
                           Append(meta_log, LogDelete(r.parent, r.inum, r.leaf)),
                           data_log, shadow, 0, FALSE, TRUE)

fs_rmdir(path) ==
    /\ Ready
    /\ OneCaller
    /\ UNCHANGED fds
    /\ LET r == path_2_inum2(inode_map, path) IN
       IF r.inum < 0 THEN Return("rmdir", -ENOENT)
       ELSE IF r.parent < 0 THEN Return("rmdir", r.parent)
       ELSE IF r.inum \notin DOMAIN inode_map THEN Die("rmdir")
       ELSE LET dir == inode_map[r.inum] IN
            IF dir.type # OBJ_DIR THEN Return("rmdir", -ENOTDIR)
            ELSE IF DOMAIN dir.dirents # {} THEN Return("rmdir", -ENOTEMPTY)
            ELSE LET m1 == MapErase(inode_map, r.inum)
                     m2 == MapPut(m1, r.parent,
                                  [m1[r.parent] EXCEPT !.dirents = MapErase(@, r.leaf)])
                     frd == IF r.inum \in dirty_inodes
                            THEN MapPut(freed, r.inum, dir) ELSE freed
                 IN Finish("rmdir", m2, dirty_inodes \cup {r.parent}, frd, next_inode,
                           Append(meta_log, LogDelete(r.parent, r.inum, r.leaf)),
                           data_log, shadow, 0, FALSE, TRUE)

fs_truncate(path, len) ==
    /\ Ready
    /\ OneCaller
    /\ UNCHANGED fds
    /\ LET inum == path_2_inum(inode_map, path) IN
       IF inum < 0 THEN Return("truncate", inum)
       ELSE IF inum \notin DOMAIN inode_map THEN Die("truncate")
       ELSE LET f == inode_map[inum] IN
            IF f.type = OBJ_DIR THEN Return("truncate", -EISDIR)
            ELSE IF f.type # OBJ_FILE THEN Return("truncate", -EINVAL)
            ELSE Finish("truncate", MapPut(inode_map, inum, do_trunc(f, len)),
                        dirty_inodes \cup {inum}, freed, next_inode,
                        Append(meta_log, LogTrunc(inum, len)), data_log,
                        ShadowTrunc(shadow, inum, len), 0, FALSE, TRUE)

fs_unlink(path) ==
    /\ Ready
    /\ OneCaller
    /\ UNCHANGED fds
    /\ LET r == path_2_inum2(inode_map, path) IN
       IF r.inum < 0 THEN Return("unlink", r.inum)
       ELSE IF r.inum \notin DOMAIN inode_map THEN Die("unlink")
       ELSE LET obj == inode_map[r.inum] IN
            IF obj.type = OBJ_DIR THEN Return("unlink", -EISDIR)
            ELSE LET m1 == MapPut(inode_map, r.parent,
                                  [inode_map[r.parent] EXCEPT !.dirents = MapErase(@, r.leaf)])
                     m2 == IF obj.type = OBJ_FILE
                           THEN MapPut(m1, r.inum, do_trunc(obj, 0)) ELSE m1
                     recs == IF obj.type = OBJ_FILE
                             THEN <<LogTrunc(r.inum, 0), LogDelete(r.parent, r.inum, r.leaf)>>
                             ELSE <<LogDelete(r.parent, r.inum, r.leaf)>>
                 IN Finish("unlink", m2, dirty_inodes \cup {r.parent}, freed, next_inode,
                           meta_log \o recs, data_log,
                           ShadowTrunc(shadow, r.inum, 0), 0, FALSE, TRUE)

\* dstdir is read from inode_map[src_parent], as the source has it
fs_rename(src_path, dst_path) ==
    /\ Ready
    /\ OneCaller
    /\ UNCHANGED fds
    /\ LET s == path_2_inum2(inode_map, src_path) IN
       IF s.inum < 0 THEN Return("rename", s.inum)
       ELSE LET d == path_2_inum2(inode_map, dst_path) IN
            IF d.inum >= 0 THEN Return("rename", -EEXIST)
            ELSE IF d.parent < 0 THEN Return("rename", d.parent)
            ELSE LET srcdir == inode_map[s.parent] IN
                 IF srcdir.type # OBJ_DIR THEN Return("rename", -ENOTDIR)
                 ELSE LET m1 == MapPut(inode_map, s.parent,
                                  [srcdir EXCEPT !.dirents = MapErase(@, s.leaf)])
                          m2 == MapPut(m1, s.parent,
                                  [m1[s.parent] EXCEPT !.dirents = MapPut(@, d.leaf, s.inum)])
                      IN Finish("rename", m2, dirty_inodes \cup {s.parent}, freed,
                                next_inode,
                                Append(meta_log, LogRename(s.inum, s.parent, d.parent,
                                                           s.leaf, d.leaf)),
                                data_log, shadow, 0, FALSE, TRUE)

fs_chmod(path, perm) ==
    /\ Ready
    /\ OneCaller
    /\ UNCHANGED fds
    /\ LET inum == path_2_inum(inode_map, path) IN
       IF inum < 0 THEN Return("chmod", inum)
       ELSE IF inum \notin DOMAIN inode_map THEN Die("chmod")
       ELSE Finish("chmod",
                   MapPut(inode_map, inum, [inode_map[inum] EXCEPT !.mode.perm = perm]),
                   dirty_inodes \cup {inum}, freed, next_inode, meta_log, data_log,
                   shadow, 0, FALSE, TRUE)

\* mtime is not modelled: fs_utimens only marks the inode dirty
fs_utimens(path) ==
    /\ Ready
    /\ OneCaller
    /\ UNCHANGED fds
    /\ LET inum == path_2_inum(inode_map, path) IN
       IF inum < 0 THEN Return("utimens", inum)
       ELSE IF inum \notin DOMAIN inode_map THEN Die("utimens")
       ELSE Finish("utimens", inode_map, dirty_inodes \cup {inum}, freed, next_inode,
                   meta_log, data_log, shadow, 0, FALSE, TRUE)

\* the new fs_link is stored under the key inum, which still holds the
\* -ENOENT that path_2_inum2 returned; its target is the leaf name.  Its
\* size is never assigned, and nothing modelled reads it.
fs_symlink(path, contents) ==
    /\ Ready
    /\ OneCaller
    /\ UNCHANGED fds
    /\ LET r == path_2_inum2(inode_map, path) IN
       IF r.inum >= 0 THEN Return("symlink", -EEXIST)
       ELSE IF r.parent < 0 THEN Return("symlink", r.parent)
       ELSE IF r.parent \notin DOMAIN inode_map THEN Die("symlink")
       ELSE LET dir == inode_map[r.parent] IN
            IF dir.type # OBJ_DIR THEN Return("symlink", -ENOTDIR)
            ELSE LET l  == [NewObj(OBJ_SYMLINK, next_inode, Mode(S_IFLNK, 511))
                              EXCEPT !.target = r.leaf]
                     m1 == MapPut(inode_map, U32(r.inum), l)
                     m2 == MapPut(m1, r.parent,
                                  [m1[r.parent] EXCEPT !.dirents = MapPut(@, r.leaf, l.inum)])
                 IN Finish("symlink", m2, dirty_inodes \cup {r.parent}, freed,
                           next_inode + 1,
                           meta_log \o <<LogInode(l), LogSymlink(r.inum, r.leaf),
                                         LogCreate(r.parent, r.leaf, r.inum)>>,
                           data_log, shadow, 0, FALSE, TRUE)

\* fs_readlink with a buffer that holds the whole target (every name of the
\* model is one character long): [ret, buf], or died when the inum the path
\* resolves to has no object and the null pointer is dereferenced.  It
\* changes no state.
fs_readlink(imap, path) ==
    LET inum == path_2_inum(imap, path) IN
    IF inum < 0 THEN [ret |-> inum, buf |-> "", died |-> FALSE]
    ELSE IF inum \notin DOMAIN imap THEN [ret |-> 0, buf |-> "", died |-> TRUE]
    ELSE IF imap[inum].type # OBJ_SYMLINK
         THEN [ret |-> -EINVAL, buf |-> "", died |-> FALSE]
    ELSE [ret |-> IF imap[inum].target = "" THEN 0 ELSE 1,
          buf |-> imap[inum].target, died |-> FALSE]

fs_fsync ==
    /\ Ready
    /\ OneCaller
    /\ UNCHANGED fds
    /\ Finish("fsync", inode_map, dirty_inodes, freed, next_inode, meta_log,
              data_log, shadow, 0, TRUE, FALSE)


\* -------------------------------------------------------------------- read
\* The destination buffer is a function from the positions written (counted
\* from the buf the caller passed) to the byte stored there; "?" is a byte
\* that does not come from the file (stale staging memory).
CopyIn(buf, pos, n, src) ==
    [q \in (DOMAIN buf) \cup {pos + i : i \in 0..(n - 1)} |->
       IF q >= pos /\ q < pos + n THEN src[q - pos] ELSE buf[q]]

\* do_read of len bytes at absolute offset abs of a stored object: the bytes
\* the object has there; a range GET returns nothing past the object's end
ObjectBytes(obj, abs, len) ==
    {i \in 0..(len - 1) : abs + i >= obj.hdr_len /\ abs + i < obj.hdr_len + Len(obj.data)}

read_data(buf, pos, index, offset, len, offs) ==
    IF index = this_index
    THEN LET avail == data_offset - offset
             n == IF avail < 0 \/ avail > len THEN len ELSE avail
             src == [i \in 0..(n - 1) |->
                       IF offset + i < data_offset THEN data_log[offset + i + 1]
                       ELSE -1]
         IN [ret |-> n, buf |-> CopyIn(buf, pos, n, src), offs |-> offs]
    ELSE LET g == get_offset(store, offs, index)
             n == g.ret
         IN IF index \notin DOMAIN store
            THEN [ret |-> -1, buf |-> buf, offs |-> g.offs]
            ELSE LET obj  == store[index]
                     abs  == offset + n
                     got  == ObjectBytes(obj, abs, len)
                 IN [ret |-> len,
                     buf |-> [q \in (DOMAIN buf) \cup {pos + i : i \in got} |->
                                IF (q - pos) \in got
                                THEN obj.data[abs + (q - pos) - obj.hdr_len + 1]
                                ELSE buf[q]],
                     offs |-> g.offs]

RECURSIVE read_loop(_, _, _, _, _, _, _)
read_loop(m, it, len, bytes, offset, buf, offs) ==
    IF ~(len > 0 /\ len > bytes /\ it # End)
    THEN [ret |-> bytes, buf |-> buf, offs |-> offs]
    ELSE LET base == it
             e    == m[it]
         IN IF base > offset
            THEN LET skip == IF base - offset > len THEN len ELSE base - offset
                 IN read_loop(m, map_next(m, it), len, bytes + skip, offset + skip,
                              buf, offs)
            ELSE LET skip == offset - base
                     raw  == e.len - skip
                     len1 == IF raw < 0 \/ raw > len THEN len ELSE raw
                     rd   == read_data(buf, bytes, e.objnum, e.offset + skip, len1, offs)
                 IN IF rd.ret < 0
                    THEN [ret |-> -EIO, buf |-> rd.buf, offs |-> rd.offs]
                    ELSE read_loop(m, map_next(m, it), len, bytes + len1,
                                   offset + len1, rd.buf, rd.offs)

\* the for loop of fs_read over the extents of f, filling an empty buffer
read_extents(f, len, offset) ==
    read_loop(f.extents, lookup(f.extents, offset), len, 0, offset, EmptyMap,
              data_offsets)

fs_read(path, len, offset) ==
    /\ Ready
    /\ OneCaller
    /\ UNCHANGED fds
    /\ LET inum == path_2_inum(inode_map, path) IN
       IF inum < 0 THEN Return("read", inum)
       ELSE IF inum \notin DOMAIN inode_map THEN Die("read")
       ELSE LET f == inode_map[inum] IN
            IF f.type # OBJ_FILE THEN Return("read", -ENOTDIR)
            ELSE \E r \in {read_extents(f, len, offset)} :
                    /\ ret' = r.ret
                    /\ data_offsets' = r.offs
                    /\ lastop' = "read"
                    /\ nops' = nops + 1
                    /\ UNCHANGED <<inode_map, dirty_inodes, freed, next_inode,
                                   this_index, meta_log, data_log, store, mounted,
                                   nfail, shadow, nput, flushed>>

\* --------------------------------------------------------- mount, teardown
GarbageInts == {0, 7}

fs_init ==
    /\ ~mounted
    /\ nops < MaxOps
    /\ OneCaller
    /\ UNCHANGED fds
    /\ \E garbage \in GarbageInts :
         \E ms \in {init_loop([imap |-> inode_map, next |-> next_inode,
                                index |-> this_index, offs |-> data_offsets,
                                ok |-> TRUE],
                               store, s3_list(store), garbage)} :
            IF ~ms.ok THEN Die("init")
            ELSE /\ inode_map' = ms.imap
                 /\ next_inode' = ms.next
                 /\ this_index' = ms.index
                 /\ data_offsets' = ms.offs
                 /\ meta_log' = <<>>
                 /\ data_log' = <<>>
                 /\ mounted' = TRUE
                 /\ flushed' = <<>>
                 /\ ret' = 0
                 /\ lastop' = "init"
                 /\ nops' = nops + 1
                 /\ UNCHANGED <<dirty_inodes, freed, store, nfail, shadow, nput>>

\* a fs_teardown that writes the staged records and data out before it clears
\* the state
fs_teardown_flushing ==
    /\ Ready
    /\ OneCaller
    /\ UNCHANGED fds
    /\ inode_map' = EmptyMap
    /\ this_index' = 0
    /\ dirty_inodes' = {}
    /\ freed' = EmptyMap
    /\ data_offsets' = EmptyMap
    /\ next_inode' = 2
    /\ mounted' = FALSE
    /\ shadow' = EmptyMap
    /\ flushed' = <<>>
    /\ ret' = 0
    /\ lastop' = "teardown"
    /\ nops' = nops + 1
    /\ store' = s3_put(store, this_index, MakeObject(this_index, meta_log, data_log))
    /\ nput' = nput + 1
    /\ UNCHANGED <<meta_log, data_log, nfail>>

\* fs_teardown frees the staging buffers and leaves their tails as they are
fs_teardown ==
    /\ Ready
    /\ OneCaller
    /\ UNCHANGED fds
    /\ inode_map' = EmptyMap
    /\ this_index' = 0
    /\ dirty_inodes' = {}
    /\ freed' = EmptyMap
    /\ data_offsets' = EmptyMap
    /\ next_inode' = 2
    /\ mounted' = FALSE
    /\ shadow' = EmptyMap
    /\ flushed' = <<>>
    /\ ret' = 0
    /\ lastop' = "teardown"
    /\ nops' = nops + 1
    /\ UNCHANGED <<meta_log, data_log, store, nfail, nput>>

\* ------------------------------------------------------------ specification
\* A store a filesystem can have been left with: the object that holds the
\* root directory, followed by n objects of flushes with nothing staged.
InitialStore(n) ==
    [i \in 0..n |-> IF i = 0 THEN RootObject ELSE MakeObject(i, <<>>, <<>>)]

\* the process before fs_init
Unmounted(st) ==
    /\ inode_map = EmptyMap
    /\ dirty_inodes = {}
    /\ freed = EmptyMap
    /\ next_inode = 2
    /\ this_index = 0
    /\ meta_log = <<>>
    /\ data_log = <<>>
    /\ data_offsets = EmptyMap
    /\ store = st
    /\ mounted = FALSE
    /\ nops = 0
    /\ nfail = 0
    /\ lastop = "none"
    /\ ret = 0
    /\ shadow = EmptyMap
    /\ nput = 0
    /\ flushed = <<>>
    /\ NoCalls
    /\ NoneOpen

\* Init: fs_init has mounted a store that holds the root directory only
Init ==
    \E ms \in {init_loop([imap |-> EmptyMap, next |-> 2, index |-> 0,
                          offs |-> EmptyMap, ok |-> TRUE],
                         InitialStore(0), s3_list(InitialStore(0)), 0)} :
    /\ inode_map = ms.imap
    /\ dirty_inodes = {}
    /\ freed = EmptyMap
    /\ next_inode = ms.next
    /\ this_index = ms.index
    /\ meta_log = <<>>
    /\ data_log = <<>>
    /\ data_offsets = ms.offs
    /\ store = InitialStore(0)
    /\ mounted = TRUE
    /\ nops = 0
    /\ nfail = 0
    /\ lastop = "none"
    /\ ret = 0
    /\ shadow = EmptyMap
    /\ nput = 0
    /\ flushed = <<>>
    /\ NoCalls
    /\ NoneOpen

Targets == {"t"}

Next ==
    \/ fs_init
    \/ fs_teardown
    \/ fs_fsync
    \/ \E path \in Paths : fs_create(path, 0)
    \/ \E path \in Paths : fs_mknod(path, 0)
    \/ \E path \in Paths : fs_mkdir(path, 0)
    \/ \E path \in Paths, t \in Targets : fs_symlink(path, t)
    \/ \E path \in Paths : fs_rmdir(path)
    \/ \E path \in Paths : fs_unlink(path)
    \/ \E src \in Paths, dst \in Paths : fs_rename(src, dst)
    \/ \E path \in Paths, perm \in Perms : fs_chmod(path, perm)
    \/ \E path \in Paths : fs_utimens(path)
    \/ \E path \in Paths, n \in 0..MaxOff : fs_truncate(path, n)
    \/ \E path \in Paths, len \in 0..MaxLen, off \in 0..MaxOff :
         fs_write(path, nops, len, off)
    \/ \E path \in Paths, len \in 1..MaxLen, off \in 0..MaxOff : fs_read(path, len, off)

Spec == Init /\ [][Next]_vars

\* ------------------------------------------------- mounting a longer history
\* The stores of histories of up to MaxObjects flushes, and the store with no
\* object under the prefix, each mounted by a new process.
MaxObjects == 10

InitMount ==
    \E st \in {EmptyMap} \cup {InitialStore(n) : n \in 0..MaxObjects} :
       Unmounted(st)

NextMount ==
    \/ fs_init
    \/ fs_teardown
    \/ fs_fsync
    \/ \E path \in Paths : fs_create(path, 0)

SpecMount == InitMount /\ [][NextMount]_vars

\* ------------------------------------------------- mounting a populated store
\* The store that mkdir("/a"), create("/a/b") and a write of three bytes at
\* offset 0 of /a/b leave: the write takes the meta buffer over its cap, so
\* write_everything_out puts object 1 with the five staged records, the
\* inodes of the dirty set (root, /a, /a/b) and the three bytes.
TreeStore(byte) ==
    LET root == NewObj(OBJ_DIR, 1, Mode(S_IFDIR, 0))
        dir  == NewObj(OBJ_DIR, 2, Mode(S_IFDIR, 0))
        f    == NewObj(OBJ_FILE, 3, Mode(S_IFREG, 0))
    IN MapPut(InitialStore(0), 1,
              MakeObject(1, <<LogInode(dir), LogCreate(1, "a", 2),
                              LogInode(f), LogCreate(2, "b", 3),
                              LogData(3, 0, 0, 3, 3),
                              LogInode(root), LogInode(dir), LogInode(f)>>,
                         <<byte, byte, byte>>))

\* fs_init of a new process has mounted TreeStore
InitTree ==
    \E ms \in {init_loop([imap |-> EmptyMap, next |-> 2, index |-> 0,
                          offs |-> EmptyMap, ok |-> TRUE],
                         TreeStore(9), s3_list(TreeStore(9)), 0)} :
    /\ inode_map = ms.imap
    /\ dirty_inodes = {}
    /\ freed = EmptyMap
    /\ next_inode = ms.next
    /\ this_index = ms.index
    /\ meta_log = <<>>
    /\ data_log = <<>>
    /\ data_offsets = ms.offs
    /\ store = TreeStore(9)
    /\ mounted = TRUE
    /\ nops = 0
    /\ nfail = 0
    /\ lastop = "none"
    /\ ret = 0
    /\ shadow = ShadowWrite(EmptyMap, 3, 0, 3, 9)
    /\ nput = 0
    /\ flushed = <<>>
    /\ NoCalls
    /\ NoneOpen

NextTree ==
    \/ fs_fsync
    \/ \E path \in Paths : fs_rmdir(path)
    \/ \E path \in Paths : fs_unlink(path)
    \/ \E src \in Paths, dst \in Paths : fs_rename(src, dst)
    \/ \E path \in Paths, n \in 0..MaxOff : fs_truncate(path, n)
    \/ \E path \in Paths, len \in 1..MaxLen, off \in 0..MaxOff : fs_read(path, len, off)

SpecTree == InitTree /\ [][NextTree]_vars

\* ------------------------------------------------ mounting a store with a file
\* The store that create("/a"), a write of one byte at offset k of /a and
\* fs_fsync leave: object 1 holds the file's LOG_INODE and LOG_CREATE, the
\* LOG_DATA of the write, the inodes of the dirty set (root, /a) and the byte.
FileStore(k, byte) ==
    LET root == NewObj(OBJ_DIR, 1, Mode(S_IFDIR, 0))
        f    == NewObj(OBJ_FILE, 2, Mode(S_IFREG, 0))
    IN MapPut(InitialStore(0), 1,
              MakeObject(1, <<LogInode(f), LogCreate(1, "a", 2),
                              LogData(2, 0, k, k + 1, 1),
                              LogInode(root), LogInode(f)>>,
                         <<byte>>))

\* where the byte of the mounted file lies: before and after the offsets
\* the operations write at
FileOffsets == {1, MaxOff + 1}

\* the lengths written: nothing, one byte, the longest write
FileLens == {0, 1, MaxLen}

\* fs_init of a new process has mounted FileStore(k, 9)
InitFile ==
    \E k \in FileOffsets :
    \E ms \in {init_loop([imap |-> EmptyMap, next |-> 2, index |-> 0,
                          offs |-> EmptyMap, ok |-> TRUE],
                         FileStore(k, 9), s3_list(FileStore(k, 9)), 0)} :
    /\ inode_map = ms.imap
    /\ dirty_inodes = {}
    /\ freed = EmptyMap
    /\ next_inode = ms.next
    /\ this_index = ms.index
    /\ meta_log = <<>>
    /\ data_log = <<>>
    /\ data_offsets = ms.offs
    /\ store = FileStore(k, 9)
    /\ mounted = TRUE
    /\ nops = 0
    /\ nfail = 0
    /\ lastop = "none"
    /\ ret = 0
    /\ shadow = ShadowWrite(EmptyMap, 2, k, 1, 9)
    /\ nput = 0
    /\ flushed = <<>>
    /\ NoCalls
    /\ NoneOpen

\* the operations on the file /a
NextFile ==
    \/ fs_unlink(<<"a">>)
    \/ \E n \in 0..MaxOff : fs_truncate(<<"a">>, n)
    \/ \E len \in FileLens, off \in 0..MaxOff : fs_write(<<"a">>, nops, len, off)

SpecFile == InitFile /\ [][NextFile]_vars

\* ------------------------------------------------------------ host threads
\* The operations as the threads of the host call them: a call enters its
\* function, takes global_mutex where the function declares a lock_guard,
\* runs the body and returns.  create_node is cut where it reads next_inode,
\* where it stores next_inode back and where it installs the node; the flush
\* is one step.
lock_guard == [create |-> TRUE, mknod |-> FALSE, fsync |-> TRUE, sync |-> FALSE]

ThreadPaths == {<<"a">>, <<"b">>}

In(t, pc) == callers[t].pc = pc

Running(t) == callers[t].pc \in {"body", "incr", "install"}

\* nothing but the threads' positions changes
Stepped ==
    UNCHANGED <<inode_map, dirty_inodes, freed, next_inode, this_index, meta_log,
                data_log, data_offsets, store, mounted, nops, nfail, lastop,
                ret, shadow, nput, flushed, fd_cache, fd_fifo, fd_open,
                fd_hist>>

\* where thread t is after a step of its body: at its return, or nowhere when
\* the process has died
After(t) ==
    /\ UNCHANGED fds
    /\ IF lastop' = "died"
       THEN global_mutex' = 0 /\ callers' = [u \in Threads |-> Idle]
       ELSE /\ global_mutex' = global_mutex
            /\ callers' = [callers EXCEPT ![t].pc = "return"]

\* the calls that have not reached their return
Pending == {u \in Threads : callers[u].pc \in {"lock", "body", "incr", "install"}}

call(t) ==
    /\ mounted
    /\ nops + Cardinality(Pending) < MaxOps
    /\ In(t, "idle")
    /\ \E op \in DOMAIN lock_guard :
         \E path \in IF op \in {"create", "mknod"} THEN ThreadPaths ELSE {<<>>} :
            callers' = [callers EXCEPT ![t] =
                          [Idle EXCEPT !.pc = IF lock_guard[op] THEN "lock" ELSE "body",
                                       !.op = op, !.path = path]]
    /\ UNCHANGED global_mutex
    /\ Stepped

\* the constructor of the lock_guard
lock(t) ==
    /\ In(t, "lock")
    /\ global_mutex = 0
    /\ global_mutex' = t
    /\ callers' = [callers EXCEPT ![t].pc = "body"]
    /\ Stepped

\* create_node up to the load of next_inode
create_node_resolve(t) ==
    /\ In(t, "body")
    /\ callers[t].op \in {"create", "mknod"}
    /\ \E c \in {callers[t]} : \E r \in {path_2_inum2(inode_map, c.path)} :
         IF r.inum >= 0 THEN Return(c.op, -EEXIST) /\ After(t)
         ELSE IF r.parent < 0 THEN Return(c.op, r.parent) /\ After(t)
         ELSE IF r.parent \notin DOMAIN inode_map THEN Die(c.op) /\ After(t)
         ELSE IF inode_map[r.parent].type # OBJ_DIR
              THEN Return(c.op, -ENOTDIR) /\ After(t)
         ELSE /\ callers' = [callers EXCEPT ![t] =
                               [c EXCEPT !.pc = "incr", !.inum = next_inode,
                                         !.parent = r.parent, !.leaf = r.leaf]]
              /\ UNCHANGED global_mutex
              /\ Stepped

\* the store of next_inode++
create_node_incr(t) ==
    /\ In(t, "incr")
    /\ next_inode' = callers[t].inum + 1
    /\ callers' = [callers EXCEPT ![t].pc = "install"]
    /\ UNCHANGED <<inode_map, dirty_inodes, freed, this_index, meta_log,
                   data_log, data_offsets, store, mounted, nops, nfail, lastop,
                   ret, shadow, nput, flushed, global_mutex, fd_cache,
                   fd_fifo, fd_open, fd_hist>>

\* another thread is in a body while t is in its own
Racing(t) == \E u \in Threads \ {t} : Running(u)

\* create_node from inode_map[inum] = f on; std::map and the staging buffers
\* are not safe to use from two threads, so the process may die when another
\* thread is in a body too
create_node_install(t) ==
    /\ In(t, "install")
    /\ \E c \in {callers[t]} :
         \/ /\ Racing(t)
            /\ Die(c.op)
            /\ After(t)
         \/ /\ c.parent \in DOMAIN inode_map
            /\ \E f \in {NewObj(IF c.op = "create" THEN OBJ_FILE ELSE OBJ_OTHER,
                                c.inum,
                                Mode(IF c.op = "create" THEN S_IFREG ELSE S_IFIFO, 0))} :
               \E m1 \in {MapPut(inode_map, c.inum, f)} :
                 Finish(c.op,
                        MapPut(m1, c.parent,
                               [m1[c.parent] EXCEPT !.dirents = MapPut(@, c.leaf, c.inum)]),
                        dirty_inodes \cup {c.parent}, freed, next_inode,
                        meta_log \o <<LogInode(f), LogCreate(c.parent, c.leaf, c.inum)>>,
                        data_log, shadow, 0, FALSE, TRUE)
            /\ After(t)

\* the body of fs_fsync and of fs_sync
flush(t) ==
    /\ In(t, "body")
    /\ callers[t].op \in {"fsync", "sync"}
    /\ Finish(callers[t].op, inode_map, dirty_inodes, freed, next_inode,
              meta_log, data_log, shadow, 0, TRUE, FALSE)
    /\ After(t)

\* the return, with the destructor of the lock_guard
return(t) ==
    /\ In(t, "return")
    /\ global_mutex' = IF lock_guard[callers[t].op] THEN 0 ELSE global_mutex
    /\ callers' = [callers EXCEPT ![t] = Idle]
    /\ Stepped

NextThreads ==
    \/ \E t \in Threads : call(t)
    \/ \E t \in Threads : lock(t)
    \/ \E t \in Threads : create_node_resolve(t)
    \/ \E t \in Threads : create_node_incr(t)
    \/ \E t \in Threads : create_node_install(t)
    \/ \E t \in Threads : flush(t)
    \/ \E t \in Threads : return(t)

SpecThreads == Init /\ [][NextThreads]_vars

\* -------------------------------------------------- the cache of open files
\* MAX_OPEN_FDS, scaled down from 50
MAX_OPEN_FDS == 2

MaxFdCalls == 5

Indexes == 0..(MAX_OPEN_FDS + 1)

\* open(2) returns the lowest descriptor the process does not have open
open(fdset) == Min({d \in 3..(MAX_OPEN_FDS + 5) : d \notin fdset})

\* a get_fd that evicts only when the queue is longer than MAX_OPEN_FDS
get_fd_late(cache, fifo, fdset, index, ok) ==
    IF index \in DOMAIN cache
    THEN [cache |-> cache, fifo |-> fifo, open |-> fdset,
          ret |-> cache[index].fd, opened |-> FALSE, closed |-> {}]
    ELSE LET evict == Len(fifo) > MAX_OPEN_FDS
             done(cache1, fifo1, open1, closed) ==
                 IF ~ok
                 THEN [cache |-> cache1, fifo |-> fifo1, open |-> open1,
                       ret |-> -1, opened |-> FALSE, closed |-> closed]
                 ELSE LET of == [index |-> index, fd |-> open(open1)]
                      IN [cache |-> MapPut(cache1, index, of),
                          fifo |-> Append(fifo1, of),
                          open |-> open1 \cup {of.fd},
                          ret |-> of.fd, opened |-> TRUE, closed |-> closed]
         IN IF evict
            THEN done(MapErase(cache, Head(fifo).index), Tail(fifo),
                      fdset \ {Head(fifo).fd}, {Head(fifo).fd})
            ELSE done(cache, fifo, fdset, {})

\* get_fd(index) on (fd_cache, fd_fifo) and the descriptors fdset; ok says
\* whether open succeeds.  ret is the value returned, opened whether open
\* returned a descriptor, closed the descriptors passed to close.
get_fd(cache, fifo, fdset, index, ok) ==
    IF index \in DOMAIN cache
    THEN [cache |-> cache, fifo |-> fifo, open |-> fdset,
          ret |-> cache[index].fd, opened |-> FALSE, closed |-> {}]
    ELSE LET evict == Len(fifo) >= MAX_OPEN_FDS
             done(cache1, fifo1, open1, closed) ==
                 IF ~ok
                 THEN [cache |-> cache1, fifo |-> fifo1, open |-> open1,
                       ret |-> -1, opened |-> FALSE, closed |-> closed]
                 ELSE LET of == [index |-> index, fd |-> open(open1)]
                      IN [cache |-> MapPut(cache1, index, of),
                          fifo |-> Append(fifo1, of),
                          open |-> open1 \cup {of.fd},
                          ret |-> of.fd, opened |-> TRUE, closed |-> closed]
         IN IF evict
            THEN done(MapErase(cache, Head(fifo).index), Tail(fifo),
                      fdset \ {Head(fifo).fd}, {Head(fifo).fd})
            ELSE done(cache, fifo, fdset, {})

\* history: the call number at which each cached openfile was inserted
Ages(age, cache, n) ==
    [i \in DOMAIN cache |-> IF i \in DOMAIN age THEN age[i] ELSE n]

call_get_fd(index, ok) ==
    /\ fd_hist.n < MaxFdCalls
    /\ \E r \in {get_fd(fd_cache, fd_fifo, fd_open, index, ok)} :
         /\ fd_cache' = r.cache
         /\ fd_fifo' = r.fifo
         /\ fd_open' = r.open
         /\ fd_hist' = [n |-> fd_hist.n + 1, index |-> index, ret |-> r.ret,
                        opened |-> r.opened, closed |-> r.closed,
                        cache |-> fd_cache, fifo |-> fd_fifo,
                        age0 |-> fd_hist.age,
                        age |-> Ages(fd_hist.age, r.cache, fd_hist.n + 1)]
    /\ OneCaller
    /\ UNCHANGED <<inode_map, dirty_inodes, freed, next_inode, this_index,
                   meta_log, data_log, data_offsets, store, mounted, nops,
                   nfail, lastop, ret, shadow, nput, flushed>>

InitFd == Unmounted(InitialStore(0))

NextFd == \E index \in Indexes, ok \in BOOLEAN : call_get_fd(index, ok)

SpecFd == InitFd /\ [][NextFd]_vars

\* ------------------------------------------------------------------- claims
\* ------------------------------------------------------- the truncate loop
\* fs_truncate with do_trunc's while loop cut at each iteration: the call
\* takes global_mutex and resolves the path to a file, every iteration is a
\* step, and the return is the rest of fs_truncate from the loop's break on.
\* looped is history: the loop has gone round at least once.
TruncSizes == 0..(MaxOff + 1)

truncate_call(t, path, len) ==
    /\ Ready
    /\ global_mutex = 0
    /\ In(t, "idle")
    /\ \E inum \in {path_2_inum(inode_map, path)} :
         /\ inum \in DOMAIN inode_map
         /\ inode_map[inum].type = OBJ_FILE
         /\ callers' = [callers EXCEPT ![t] =
                          [pc |-> "do_trunc", op |-> "truncate", path |-> path,
                           inum |-> inum, parent |-> 0, leaf |-> "",
                           new_size |-> len, looped |-> FALSE]]
    /\ global_mutex' = t
    /\ Stepped

\* one iteration of the loop that does not break
do_trunc_iterate(t) ==
    /\ In(t, "do_trunc")
    /\ \E inum \in {callers[t].inum}, new_size \in {callers[t].new_size} :
         \E it \in {lookup(inode_map[inum].extents, new_size)} :
            /\ it # End
            /\ inode_map' =
                  [inode_map EXCEPT ![inum].extents =
                     IF it < new_size
                     THEN update(@, it, [@[it] EXCEPT !.len = U32(new_size - it)])
                     ELSE erase(@, it)]
    /\ UNCHANGED <<dirty_inodes, freed, next_inode, this_index, meta_log,
                   data_log, data_offsets, store, mounted, nops, nfail, lastop,
                   ret, shadow, nput, flushed, global_mutex>>
    /\ callers' = [callers EXCEPT ![t].looped = TRUE]
    /\ UNCHANGED fds

\* the break, and fs_truncate after do_trunc's loop
truncate_return(t) ==
    /\ In(t, "do_trunc")
    /\ \E inum \in {callers[t].inum}, new_size \in {callers[t].new_size} :
         /\ lookup(inode_map[inum].extents, new_size) = End
         /\ Finish("truncate",
                   [inode_map EXCEPT ![inum].size = new_size],
                   dirty_inodes \cup {inum}, freed, next_inode,
                   Append(meta_log, LogTrunc(inum, new_size)), data_log,
                   ShadowTrunc(shadow, inum, new_size), 0, FALSE, TRUE)
    /\ global_mutex' = 0
    /\ callers' = [callers EXCEPT ![t] = Idle]
    /\ UNCHANGED fds

\* fs_write, which waits for global_mutex
write_call(path, byte, len, offset) ==
    /\ global_mutex = 0
    /\ fs_write(path, byte, len, offset)

NextTrunc ==
    \/ \E t \in Threads, n \in TruncSizes : truncate_call(t, <<"a">>, n)
    \/ \E t \in Threads : do_trunc_iterate(t)
    \/ \E t \in Threads : truncate_return(t)
    \/ \E len \in FileLens, off \in 0..MaxOff : write_call(<<"a">>, nops, len, off)

SpecTrunc == InitFile /\ [][NextTrunc]_vars

IsPrefix(s, t) == Len(s) <= Len(t) /\ SubSeq(t, 1, Len(s)) = s

NonOverlapping(m) ==
    \A k1 \in DOMAIN m : \A k2 \in DOMAIN m :
        k1 < k2 => k1 + m[k1].len <= k2

\* what the next fs_init of a new process rebuilds from store st
Rebuilt(st) ==
    init_loop([imap |-> EmptyMap, next |-> 2, index |-> 0, offs |-> EmptyMap,
               ok |-> TRUE], st, s3_list(st), 0)

\* the part of the state replay determinism speaks of: the inums, and each
\* object's directory entries, extents, size and target
View(imap) ==
    [i \in DOMAIN imap |->
       [dirents |-> imap[i].dirents, extents |-> imap[i].extents,
        size |-> imap[i].size, target |-> imap[i].target]]

\* C1: in every reachable state every file's extent map is non-overlapping:
\* for two entries (k1, e1), (k2, e2) with k1 < k2, k1 + e1.len <= k2.
C1_ExtentsNonOverlapping ==
    \A i \in DOMAIN inode_map : NonOverlapping(inode_map[i].extents)

\* C2: read-your-writes: a read of len bytes at off returns, for every offset
\* it covers that a write has stored a byte at, the byte of the most recent
\* write covering that offset.
C2_ReadYourWrites ==
    mounted =>
    \A i \in DOMAIN shadow : \A len \in 1..MaxLen : \A off \in 0..MaxOff :
        (i \in DOMAIN inode_map /\ inode_map[i].type = OBJ_FILE) =>
        \A r \in {read_extents(inode_map[i], len, off)} :
        \A o \in off..(off + len - 1) :
            o \in DOMAIN shadow[i] =>
                /\ r.ret >= 0
                /\ (o - off) \in DOMAIN r.buf
                /\ r.buf[o - off] = shadow[i][o]

\* C3: replay determinism: after operations that all succeeded and a
\* successful fsync, the state fs_teardown and fs_init rebuild from the store
\* (inums, directory entries, extents, sizes, targets) is the in-memory state.
C3_ReplayDeterminism ==
    (mounted /\ lastop = "fsync" /\ ret = 0 /\ nfail = 0) =>
        View(Rebuilt(store).imap) = View(inode_map)

\* C4: size dominance: every file's size is at least k + e.len for every
\* entry (k, e) of its extent map.
C4_SizeDominance ==
    \A i \in DOMAIN inode_map :
        inode_map[i].type = OBJ_FILE =>
        \A k \in DOMAIN inode_map[i].extents :
            inode_map[i].size >= k + inode_map[i].extents[k].len

\* C5: inode-table closure: every (name, inum) entry of every directory
\* refers to an inum present in the inode table.
C5_InodeTableClosure ==
    \A d \in DOMAIN inode_map :
        \A name \in DOMAIN inode_map[d].dirents :
            inode_map[d].dirents[name] \in DOMAIN inode_map

\* C6: when fs_fsync returns success, one object holding every record and
\* every data byte staged since the previous flush is in the store under the
\* index of the flush, and both staging tails are back at zero; it does not
\* return success when the PUT whose status it tests failed.
C6_FsyncStep ==
    /\ lastop' = "fsync"
    /\ nops' = nops + 1
    /\ ret' = 0

C6_FsyncDurable ==
    [][C6_FsyncStep =>
         /\ this_index \in DOMAIN store'
         /\ store'[this_index].this_index = this_index
         /\ IsPrefix(meta_log, store'[this_index].meta)
         /\ store'[this_index].data = data_log
         /\ meta_log' = <<>>
         /\ data_log' = <<>>]_vars

C6_Witness ==
    /\ lastop = "fsync"
    /\ ret = 0
    /\ nfail > 0
    /\ (this_index - 1) \in DOMAIN store
    /\ store[this_index - 1].data # <<>>
    /\ Len(store[this_index - 1].meta) > 1

\* C7: a flush whose PUT fails leaves this_index and both staging tails as
\* they were before the PUT.
C7_FailedFlushStep ==
    /\ nput' > nput
    /\ mounted'
    /\ ret' = -EIO

C7_FailedPutKeepsIndex ==
    [][C7_FailedFlushStep =>
         /\ this_index' = this_index
         /\ IsPrefix(meta_log, meta_log')
         /\ data_log' = data_log]_vars

\* C8: within a mount every completed flush writes the object whose index is
\* one more than the index of the previous flushed object.
C8_FlushIndexSuccessor ==
    \A i \in 2..Len(flushed) : flushed[i] = flushed[i - 1] + 1

\* C9: after fs_init over a store that lists the indices S (one at least),
\* this_index is max(S) + 1.
C9_InitIndexIsMaxPlusOne ==
    (mounted /\ lastop = "init" /\ DOMAIN store # {}) =>
        this_index = Max(DOMAIN store) + 1

\* C10: fs_teardown issues no PUT and leaves the store as it is, so the next
\* fs_init rebuilds what the store holds; after it the inode table, the dirty
\* set and the data-offset cache are empty, next_inode = 2 and this_index = 0.
C10_TeardownStep ==
    /\ lastop' = "teardown"
    /\ nops' = nops + 1

C10_InitStep ==
    /\ lastop' = "init"
    /\ nops' = nops + 1
    /\ lastop = "teardown"

C10_TeardownNoPut ==
    [][/\ C10_TeardownStep =>
            /\ nput' = nput
            /\ store' = store
            /\ inode_map' = EmptyMap
            /\ dirty_inodes' = {}
            /\ data_offsets' = EmptyMap
            /\ next_inode' = 2
            /\ this_index' = 0
       /\ C10_InitStep =>
            /\ store' = store
            /\ View(inode_map') = View(Rebuilt(store).imap)]_vars

C10_Witness ==
    /\ lastop = "teardown"
    /\ ~mounted
    /\ meta_log # <<>>
    /\ inode_map = EmptyMap
    /\ nput > 0

\* C11: a mutating operation (create, mkdir, mknod, symlink, unlink, rmdir,
\* rename, chmod, utimens, truncate, write) that returns NOENT, NOTDIR, EXIST,
\* ISDIR, EINVAL or NOTEMPTY leaves the inode table (with every directory's
\* entries and every file's extents and size), next_inode, the dirty set and
\* both staging tails as they were.
MutatingOps ==
    {"create", "mkdir", "mknod", "symlink", "unlink", "rmdir", "rename",
     "chmod", "utimens", "truncate", "write"}

ErrorCodes == {-ENOENT, -ENOTDIR, -EEXIST, -EISDIR, -EINVAL, -ENOTEMPTY}

C11_FailedStep ==
    /\ nops' = nops + 1
    /\ lastop' \in MutatingOps
    /\ ret' \in ErrorCodes

C11_FailedOpLeavesNoTrace ==
    [][C11_FailedStep =>
         /\ inode_map' = inode_map
         /\ next_inode' = next_inode
         /\ dirty_inodes' = dirty_inodes
         /\ meta_log' = meta_log
         /\ data_log' = data_log]_vars

C11_Witness ==
    /\ lastop \in {"create", "mknod"}
    /\ ret = -EEXIST
    /\ dirty_inodes # {}
    /\ meta_log # <<>>
    /\ data_log # <<>>

\* C12: after a successful fs_rename(src, dst), whether the two parent
\* directories are the same or not, src resolves to NOENT, dst resolves to
\* the inum src resolved to before the call, and every other directory entry
\* is as it was.
C12_RenameStep(src, dst) ==
    /\ fs_rename(src, dst)
    /\ lastop' = "rename"
    /\ ret' = 0

C12_EntriesKept(before, after, moved) ==
    /\ DOMAIN after = DOMAIN before
    /\ \A i \in DOMAIN before :
         \A n \in (DOMAIN before[i].dirents) \cup (DOMAIN after[i].dirents) :
             <<i, n>> \notin moved =>
                 /\ n \in DOMAIN before[i].dirents
                 /\ n \in DOMAIN after[i].dirents
                 /\ after[i].dirents[n] = before[i].dirents[n]

C12_RenameMovesEntry ==
    [][\A src \in Paths : \A dst \in Paths :
         C12_RenameStep(src, dst) =>
             /\ path_2_inum(inode_map', src) = -ENOENT
             /\ path_2_inum(inode_map', dst) = path_2_inum(inode_map, src)
             /\ C12_EntriesKept(inode_map, inode_map',
                                {<<path_2_inum2(inode_map, src).parent,
                                   path_2_inum2(inode_map, src).leaf>>,
                                 <<path_2_inum2(inode_map, dst).parent,
                                   path_2_inum2(inode_map, dst).leaf>>})]_vars

\* C13: after fs_truncate(path, n) on a regular file, for any extent map and
\* any n with 0 <= n <= size, the file's size is n and every remaining extent
\* (k, e) has k + e.len <= n, so that a following read at offset 0 returns no
\* byte at or past n.
C13_TruncateStep(path, n) ==
    /\ fs_truncate(path, n)
    /\ lastop' = "truncate"
    /\ ret' = 0
    /\ n <= inode_map[path_2_inum(inode_map, path)].size

C13_Truncated(f, n) ==
    /\ f.size = n
    /\ \A k \in DOMAIN f.extents : k + f.extents[k].len <= n
    /\ \A len \in 1..MaxLen : read_extents(f, len, 0).ret <= n

C13_TruncateShrinks ==
    [][\A path \in Paths : \A n \in 0..MaxOff :
         C13_TruncateStep(path, n) =>
             C13_Truncated(inode_map'[path_2_inum(inode_map, path)], n)]_vars

\* C14: fs_unlink(path) on an existing non-directory removes the entry from
\* its parent, so that path resolves to NOENT, truncates a regular file to
\* zero, and appends to the meta buffer LOG_TRUNC(inum, 0) (regular files
\* only) followed by LOG_DELETE(parent, inum, name); on a directory it
\* returns EISDIR.
C14_Records(r, isfile) ==
    IF isfile
    THEN <<LogTrunc(r.inum, 0), LogDelete(r.parent, r.inum, r.leaf)>>
    ELSE <<LogDelete(r.parent, r.inum, r.leaf)>>

\* the records staged by the step: still in the meta buffer, or in the object
\* that the step has flushed
C14_Staged ==
    IF nput' = nput THEN meta_log' ELSE store'[this_index].meta

C14_Unlinked(path, r, isfile) ==
    /\ lastop' = "unlink"
    /\ ret' = 0
    /\ path_2_inum(inode_map', path) = -ENOENT
    /\ isfile => /\ r.inum \in DOMAIN inode_map'
                 /\ inode_map'[r.inum].size = 0
                 /\ inode_map'[r.inum].extents = EmptyMap
    /\ IsPrefix(meta_log \o C14_Records(r, isfile), C14_Staged)

C14_UnlinkStep(path) ==
    /\ fs_unlink(path)
    /\ nops' = nops + 1
    /\ nfail' = nfail
    /\ path_2_inum(inode_map, path) >= 0

C14_UnlinkRemovesEntry ==
    [][\A path \in Paths :
         C14_UnlinkStep(path) =>
             \A r \in {path_2_inum2(inode_map, path)} :
                 IF r.inum \in DOMAIN inode_map /\ inode_map[r.inum].type = OBJ_DIR
                 THEN /\ lastop' = "unlink"
                      /\ ret' = -EISDIR
                      /\ inode_map' = inode_map
                      /\ meta_log' = meta_log
                 ELSE C14_Unlinked(path, r,
                                   /\ r.inum \in DOMAIN inode_map
                                   /\ inode_map[r.inum].type = OBJ_FILE)]_vars

\* C15: fs_rmdir(path) returns NOTEMPTY and changes nothing when the
\* directory has an entry; when the directory exists and is empty it
\* succeeds, removes the entry from the parent, removes the inode from the
\* inode table and appends a LOG_DELETE record.  So rmdir of a directory
\* that holds one file fails with NOTEMPTY, and succeeds after the file is
\* unlinked.
C15_RmdirStep(path) ==
    /\ fs_rmdir(path)
    /\ nops' = nops + 1
    /\ nfail' = nfail
    /\ path_2_inum(inode_map, path) \in DOMAIN inode_map
    /\ inode_map[path_2_inum(inode_map, path)].type = OBJ_DIR

C15_Refused ==
    /\ lastop' = "rmdir"
    /\ ret' = -ENOTEMPTY
    /\ UNCHANGED <<inode_map, dirty_inodes, next_inode, meta_log, data_log,
                   store, this_index>>

C15_Removed(r) ==
    /\ lastop' = "rmdir"
    /\ ret' = 0
    /\ r.inum \notin DOMAIN inode_map'
    /\ r.leaf \notin DOMAIN inode_map'[r.parent].dirents
    /\ \A i \in (DOMAIN inode_map) \ {r.inum} : i \in DOMAIN inode_map'
    /\ IsPrefix(Append(meta_log, LogDelete(r.parent, r.inum, r.leaf)),
                IF nput' = nput THEN meta_log' ELSE store'[this_index].meta)

C15_RmdirOnlyEmpty ==
    [][\A path \in Paths :
         C15_RmdirStep(path) =>
             \A r \in {path_2_inum2(inode_map, path)} :
                 IF DOMAIN inode_map[r.inum].dirents # {}
                 THEN C15_Refused
                 ELSE C15_Removed(r)]_vars

\* rmdir("/a") has succeeded after unlink("/a/b"); the third operation of the
\* run left no record
C15_Witness ==
    /\ lastop = "rmdir"
    /\ ret = 0
    /\ nops = 3
    /\ 2 \notin DOMAIN inode_map
    /\ "a" \notin DOMAIN inode_map[1].dirents
    /\ meta_log = <<LogTrunc(3, 0), LogDelete(2, 3, "b"), LogDelete(1, 2, "a")>>

\* C16: fs_create / fs_mkdir / fs_mknod on a path whose parent exists and is
\* a directory and whose leaf name is absent allocates inum = next_inode and
\* increments next_inode, installs the new inode of the right variant with
\* size 0 in the inode table and the (leaf, inum) entry in the parent, and
\* appends a LOG_INODE then a LOG_CREATE record carrying that inum; it
\* returns EEXIST if the path already exists and NOTDIR if the parent is not
\* a directory.
C16_Makers ==
    {[op |-> "create", type |-> OBJ_FILE,  fmt |-> S_IFREG],
     [op |-> "mkdir",  type |-> OBJ_DIR,   fmt |-> S_IFDIR],
     [op |-> "mknod",  type |-> OBJ_OTHER, fmt |-> S_IFIFO]}

C16_MakeStep(mk, path) ==
    /\ CASE mk.op = "create" -> fs_create(path, 0)
         [] mk.op = "mkdir"  -> fs_mkdir(path, 0)
         [] mk.op = "mknod"  -> fs_mknod(path, 0)
    /\ nops' = nops + 1
    /\ nfail' = nfail

C16_Made(mk, r) ==
    /\ lastop' = mk.op
    /\ ret' = 0
    /\ next_inode' = next_inode + 1
    /\ next_inode \in DOMAIN inode_map'
    /\ inode_map'[next_inode] = NewObj(mk.type, next_inode, Mode(mk.fmt, 0))
    /\ r.leaf \in DOMAIN inode_map'[r.parent].dirents
    /\ inode_map'[r.parent].dirents[r.leaf] = next_inode
    /\ IsPrefix(meta_log \o <<LogInode(NewObj(mk.type, next_inode, Mode(mk.fmt, 0))),
                              LogCreate(r.parent, r.leaf, next_inode)>>,
                IF nput' = nput THEN meta_log' ELSE store'[this_index].meta)

C16_CreateInstalls ==
    [][\A mk \in C16_Makers : \A path \in Paths :
         C16_MakeStep(mk, path) =>
             \A r \in {path_2_inum2(inode_map, path)} :
                 IF r.inum >= 0
                 THEN lastop' = mk.op /\ ret' = -EEXIST
                 ELSE IF r.parent < 0 THEN TRUE
                 ELSE IF /\ r.parent \in DOMAIN inode_map
                         /\ inode_map[r.parent].type = OBJ_DIR
                      THEN C16_Made(mk, r)
                      ELSE lastop' = mk.op /\ ret' = -ENOTDIR]_vars

\* C17: after a successful fs_symlink(path, contents), path resolves to a
\* freshly allocated inum that is in the inode table as a symlink with mode
\* S_IFLNK | 0777 and target contents, so that fs_readlink(path) returns
\* contents, and the LOG_INODE, LOG_SYMLNK and LOG_CREATE records appended
\* all carry that inum.
C17_SymlinkStep(path, contents) ==
    /\ fs_symlink(path, contents)
    /\ lastop' = "symlink"
    /\ ret' = 0

C17_Linked(imap, inum, contents) ==
    /\ inum \in DOMAIN imap
    /\ imap[inum].type = OBJ_SYMLINK
    /\ imap[inum].mode = Mode(S_IFLNK, 511)
    /\ imap[inum].target = contents

C17_Logged(staged, n, inum) ==
    /\ Len(staged) >= n + 3
    /\ staged[n + 1].type = "LOG_INODE"  /\ staged[n + 1].inum = inum
    /\ staged[n + 2].type = "LOG_SYMLNK" /\ staged[n + 2].inum = inum
    /\ staged[n + 3].type = "LOG_CREATE" /\ staged[n + 3].inum = inum

C17_SymlinkInstalls ==
    [][\A path \in Paths : \A contents \in Targets :
         C17_SymlinkStep(path, contents) =>
             /\ path_2_inum(inode_map', path) = next_inode
             /\ next_inode \notin DOMAIN inode_map
             /\ C17_Linked(inode_map', next_inode, contents)
             /\ ~fs_readlink(inode_map', path).died
             /\ fs_readlink(inode_map', path).buf = contents
             /\ C17_Logged(IF nput' = nput THEN meta_log'
                           ELSE store'[this_index].meta,
                           Len(meta_log), next_inode)]_vars

\* C18: path resolution starts at inum 1, ignores empty components (leading,
\* trailing and duplicate slashes do not change the result), returns NOTDIR
\* when a component has to be looked up in an inode that is not a directory,
\* NOENT when a component is not an entry of the current directory, and
\* otherwise the inum of the last component; it never returns an inum that
\* is absent from the inode table.
RECURSIVE C18_Resolve(_, _, _)
C18_Resolve(imap, inum, pathvec) ==
    IF pathvec = <<>> THEN inum
    ELSE IF inum \in DOMAIN imap /\ imap[inum].type # OBJ_DIR THEN -ENOTDIR
    ELSE IF inum \notin DOMAIN imap \/ Head(pathvec) \notin DOMAIN imap[inum].dirents
         THEN -ENOENT
    ELSE C18_Resolve(imap, imap[inum].dirents[Head(pathvec)], Tail(pathvec))

\* path with an empty component before, after and between its components
C18_Slashed(path) ==
    {<<"">> \o path, path \o <<"">>,
     <<"", "">> \o path \o <<"">>,
     IF Len(path) = 2 THEN <<path[1], "", path[2]>> ELSE path}

C18_PathResolution ==
    mounted =>
    \A path \in Paths \cup {<<>>} :
        /\ path_2_inum(inode_map, path) = C18_Resolve(inode_map, 1, path)
        /\ \A p \in C18_Slashed(path) :
               path_2_inum(inode_map, p) = path_2_inum(inode_map, path)
        /\ path_2_inum(inode_map, path) >= 0 =>
               path_2_inum(inode_map, path) \in DOMAIN inode_map

\* C19: when fs_read crosses a hole (file offsets below the next extent's key
\* that no extent covers), the destination bytes that correspond to the hole
\* are zero after the read, whatever the buffer held before.  A position the
\* read has not stored to is outside the domain of its buffer and keeps what
\* the caller's buffer held.
C19_InHole(m, o) ==
    /\ \E k \in DOMAIN m : k > o
    /\ ~\E k \in DOMAIN m : k <= o /\ o < k + m[k].len

C19_HoleZeroFilled ==
    mounted =>
    \A i \in DOMAIN inode_map :
        inode_map[i].type = OBJ_FILE =>
        \A len \in 1..MaxLen : \A off \in 0..MaxOff :
        \A r \in {read_extents(inode_map[i], len, off)} :
            r.ret >= 0 =>
            \A q \in 0..(len - 1) :
                C19_InHole(inode_map[i].extents, off + q) =>
                    /\ q \in DOMAIN r.buf
                    /\ r.buf[q] = 0

\* C20: fs_read(path, buf, len, offset) never returns more than len and
\* never stores at or past buf + len, for every extent map and every
\* (offset, len), requests that span several extents included: at every
\* extent it takes min(e.len - skip, len - bytes) bytes.
C20_ReadWithinLen ==
    mounted =>
    \A i \in DOMAIN inode_map :
        inode_map[i].type = OBJ_FILE =>
        \A len \in 1..MaxLen : \A off \in 0..MaxOff :
        \A r \in {read_extents(inode_map[i], len, off)} :
            /\ r.ret <= len
            /\ \A q \in DOMAIN r.buf : q < len

\* C21: fs_write with len = 0 is a no-op: it appends no log record and leaves
\* the file's extent map, its size and the data it maps unchanged, for every
\* offset (inside an extent, at an extent boundary, beyond the end).
C21_EmptyWriteStep(path, offset) ==
    /\ fs_write(path, nops, 0, offset)
    /\ lastop' = "write"
    /\ ret' = 0

C21_EmptyWriteIsNoOp ==
    [][\A path \in Paths : \A offset \in 0..MaxOff :
         C21_EmptyWriteStep(path, offset) =>
             /\ meta_log' = meta_log
             /\ data_log' = data_log
             /\ inode_map' = inode_map
             /\ store' = store]_vars

\* C22: truncating a file to 0, by fs_truncate(path, 0), by fs_unlink of a
\* regular file, or by replaying LOG_TRUNC with new_size 0, leaves its extent
\* map empty and its size 0, for every extent map the file may have.
C22_Emptied(f) == f.extents = EmptyMap /\ f.size = 0

\* the last operation was a truncate to 0 or an unlink of file i whose
\* records are still staged
C22_JustTruncated(i) ==
    /\ lastop \in {"truncate", "unlink"}
    /\ ret = 0
    /\ \E n \in 1..Len(meta_log) :
          /\ meta_log[n] = LogTrunc(i, 0)
          /\ \A j \in (n + 1)..Len(meta_log) : meta_log[j].type = "LOG_DELETE"

C22_TruncateToZero ==
    mounted =>
    \A i \in DOMAIN inode_map :
        inode_map[i].type = OBJ_FILE =>
            /\ C22_JustTruncated(i) => C22_Emptied(inode_map[i])
            /\ C22_Emptied(do_trunc(inode_map[i], 0))
            /\ \A r \in {read_log_trunc([imap |-> inode_map, next |-> next_inode],
                                        LogTrunc(i, 0))} :
                   r.ok /\ C22_Emptied(r.st.imap[i])

\* a truncate to 0 of a file that two writes of this mount and the write of
\* the mounted store have given extents
C22_Witness ==
    /\ lastop = "truncate"
    /\ ret = 0
    /\ Len(meta_log) = 3
    /\ meta_log[1].type = "LOG_DATA" /\ meta_log[1].dlen > 0
    /\ meta_log[2].type = "LOG_DATA" /\ meta_log[2].dlen > 0
    /\ meta_log[2].file_offset >= meta_log[1].file_offset + meta_log[1].dlen
    /\ meta_log[3] = LogTrunc(2, 0)
    /\ C22_Emptied(inode_map[2])

\* C23: every public operation holds the global mutex for its whole duration,
\* so that no two operations called from different host threads interleave:
\* a thread that is in the body of an operation holds global_mutex, and no
\* two threads are in a body at once.
C23_MutexHeld ==
    /\ \A t \in Threads : Running(t) => global_mutex = t
    /\ \A t \in Threads, u \in Threads : Running(t) /\ Running(u) => t = u

\* C24: if any object listed at mount is malformed, fs_init aborts the mount
\* instead of going on to the next object: after an fs_init that has
\* returned, read_hdr has reported bad format for no object of the store.
RECURSIVE C24_BadHeaders(_, _, _)
C24_BadHeaders(ms, st, keys) ==
    IF keys = <<>> THEN {}
    ELSE LET n == sscanf_index(Head(keys), 0)
             off == get_offset(st, ms.offs, n)
             r == read_hdr([imap |-> ms.imap, next |-> ms.next], n,
                           st[Head(keys)], off.ret)
         IN (IF r.ret = SIZE_MAX THEN {Head(keys)} ELSE {})
            \cup C24_BadHeaders([imap |-> r.st.imap, next |-> r.st.next,
                                 offs |-> off.offs], st, Tail(keys))

C24_MountRejectsBadObject ==
    (lastop = "init" /\ mounted) =>
        C24_BadHeaders([imap |-> EmptyMap, next |-> 2, offs |-> EmptyMap],
                       store, s3_list(store)) = {}

\* C25: lookup(offset) on a non-overlapping map returns, for every offset,
\* the entry that contains the offset when there is one, otherwise the entry
\* with the lowest key above the offset when there is one, otherwise end;
\* offsets strictly inside the last entry included (stated for the maps whose
\* extents all have a positive length).
C25_Expected(m, offset) ==
    IF \E k \in DOMAIN m : k <= offset /\ offset < k + m[k].len
    THEN CHOOSE k \in DOMAIN m : k <= offset /\ offset < k + m[k].len
    ELSE map_next(m, offset)

C25_LookupFindsEntry ==
    \A i \in DOMAIN inode_map :
        (/\ NonOverlapping(inode_map[i].extents)
         /\ \A k \in DOMAIN inode_map[i].extents : inode_map[i].extents[k].len > 0) =>
            \A offset \in 0..(MaxOff + MaxLen) :
                lookup(inode_map[i].extents, offset)
                    = C25_Expected(inode_map[i].extents, offset)

\* C26: each flush issues exactly one PUT for the object it seals: a step
\* that calls s3_put calls it once, whether the PUT succeeds or fails.
C26_OnePutPerFlush == [][nput' # nput => nput' = nput + 1]_vars

\* C27: after any sequence of get_fd calls the cache holds at most
\* MAX_OPEN_FDS handles, and the lookup map and the queue hold the same
\* object indices (each once, with its descriptor open); a hit returns the
\* cached descriptor without opening or closing anything; a miss that finds
\* the cache full closes and removes exactly the handle inserted earliest,
\* and a miss that finds room removes nothing.
C27_Hit == fd_hist.index \in DOMAIN fd_hist.cache

C27_Full == Len(fd_hist.fifo) >= MAX_OPEN_FDS

C27_Oldest(i) ==
    /\ i \in DOMAIN fd_hist.cache
    /\ \A j \in DOMAIN fd_hist.cache : fd_hist.age0[i] <= fd_hist.age0[j]

C27_FdCache ==
    /\ Len(fd_fifo) <= MAX_OPEN_FDS
    /\ Cardinality(DOMAIN fd_cache) <= MAX_OPEN_FDS
    /\ {fd_fifo[n].index : n \in 1..Len(fd_fifo)} = DOMAIN fd_cache
    /\ \A n \in 1..Len(fd_fifo) : fd_cache[fd_fifo[n].index] = fd_fifo[n]
    /\ Len(fd_fifo) = Cardinality(DOMAIN fd_cache)
    /\ fd_open = {fd_fifo[n].fd : n \in 1..Len(fd_fifo)}
    /\ fd_hist.n > 0 =>
         /\ C27_Hit =>
              /\ fd_hist.ret = fd_hist.cache[fd_hist.index].fd
              /\ ~fd_hist.opened
              /\ fd_hist.closed = {}
              /\ fd_cache = fd_hist.cache
              /\ fd_fifo = fd_hist.fifo
         /\ (~C27_Hit /\ C27_Full) =>
              \E i \in DOMAIN fd_hist.cache :
                 /\ C27_Oldest(i)
                 /\ fd_hist.closed = {fd_hist.cache[i].fd}
                 /\ (DOMAIN fd_cache) \ {fd_hist.index} = (DOMAIN fd_hist.cache) \ {i}
                 /\ \A j \in (DOMAIN fd_hist.cache) \ {i} : fd_cache[j] = fd_hist.cache[j]
         /\ (~C27_Hit /\ ~C27_Full) =>
              /\ fd_hist.closed = {}
              /\ \A j \in DOMAIN fd_hist.cache : fd_cache[j] = fd_hist.cache[j]
         /\ ~C27_Hit =>
              /\ fd_hist.opened <=> fd_hist.index \in DOMAIN fd_cache
              /\ fd_hist.opened => fd_hist.ret = fd_cache[fd_hist.index].fd
              /\ ~fd_hist.opened => fd_hist.ret = -1

\* a miss has found the cache full, evicted the oldest handle and opened the
\* object asked for
C27_Witness ==
    /\ fd_hist.n > 0
    /\ ~C27_Hit
    /\ C27_Full
    /\ fd_hist.opened
    /\ fd_hist.closed # {}
    /\ Len(fd_fifo) = MAX_OPEN_FDS

\* C28: after fs_init returns, for every store content, the store with no
\* object under the prefix included, inum 1 is in the inode table and is a
\* directory.
C28_RootAfterInit ==
    (lastop = "init" /\ mounted) =>
        /\ 1 \in DOMAIN inode_map
        /\ inode_map[1].type = OBJ_DIR

\* C29: update's tail-append fast path merges the new extent into the last
\* entry (k, e) only when offset = k + e.len, new.obj_offset = e.obj_offset +
\* e.len and both extents are in the same object: a write that leaves the
\* file's map as it was but for a longer last entry was at the end of that
\* entry and continues its data in its object.
C29_WriteStep(path, len, offset) ==
    /\ fs_write(path, nops, len, offset)
    /\ lastop' = "write"
    /\ ret' = len

C29_Grown(m, m2, len) ==
    /\ DOMAIN m # {}
    /\ m2 = MapPut(m, map_last(m),
                   [m[map_last(m)] EXCEPT !.len = U32(@ + len)])

C29_TailMergeSameObject ==
    [][\A path \in Paths : \A len \in 1..MaxLen : \A offset \in 0..MaxOff :
         \A inum \in {path_2_inum(inode_map, path)} :
            (/\ C29_WriteStep(path, len, offset)
             /\ C29_Grown(inode_map[inum].extents, inode_map'[inum].extents, len)) =>
               \E k \in {map_last(inode_map[inum].extents)} :
                 \E e \in {inode_map[inum].extents[k]} :
                    /\ offset = k + e.len
                    /\ data_offset = e.offset + e.len
                    /\ e.objnum = this_index]_vars

\* C30: update(offset, new) with an entry (k, e) such that k < offset and
\* offset + new.len < k + e.len replaces that entry by three: [k, offset)
\* with e's obj_offset, the new extent at offset, and [offset + new.len,
\* k + e.len) with obj_offset advanced by offset + new.len - k; wherever the
\* entry is in the map, the last entry included.  Stated for the writes that
\* land strictly inside an extent of a non-overlapping map.
C30_Bisected(m, k, offset, new) ==
    MapPut(MapPut(MapPut(m, k, [m[k] EXCEPT !.len = offset - k]),
                  offset, new),
           offset + new.len,
           [m[k] EXCEPT !.offset = @ + (offset + new.len - k),
                        !.len = k + m[k].len - (offset + new.len)])

C30_UpdateBisects ==
    [][\A path \in Paths : \A len \in 1..MaxLen : \A offset \in 0..MaxOff :
         \A inum \in {path_2_inum(inode_map, path)} :
            C29_WriteStep(path, len, offset) =>
               \A k \in DOMAIN inode_map[inum].extents :
                  (/\ NonOverlapping(inode_map[inum].extents)
                   /\ k < offset
                   /\ offset + len < k + inode_map[inum].extents[k].len) =>
                     inode_map'[inum].extents
                       = C30_Bisected(inode_map[inum].extents, k, offset,
                                      [objnum |-> this_index,
                                       offset |-> data_offset,
                                       len |-> len])]_vars

\* C31: update(offset, new) changes the mapping only inside [offset, offset +
\* new.len): a file offset outside that range is mapped to the same (object,
\* object byte offset) after the call as before it, and an offset that was
\* unmapped outside the range stays unmapped.  Stated for the writes to a
\* file whose map is non-overlapping.
C31_MapsTo(m, x) ==
    {[objnum |-> m[k].objnum, offset |-> m[k].offset + (x - k)] :
       k \in {j \in DOMAIN m : j <= x /\ x < j + m[j].len}}

C31_Span == 0..(MaxOff + MaxLen + 1)

C31_UpdateIsLocal ==
    [][\A path \in Paths : \A len \in 0..MaxLen : \A offset \in 0..MaxOff :
         \A inum \in {path_2_inum(inode_map, path)} :
            (/\ C29_WriteStep(path, len, offset)
             /\ NonOverlapping(inode_map[inum].extents)) =>
               \A x \in C31_Span \ (offset..(offset + len - 1)) :
                  C31_MapsTo(inode_map'[inum].extents, x)
                    = C31_MapsTo(inode_map[inum].extents, x)]_vars

\* C32: maybe_write flushes exactly when meta_used > meta_cap or data_used >
\* data_cap at the end of a mutating operation: an operation that ends with
\* both staging buffers at or under their caps issues no PUT and leaves
\* this_index, the store and what was staged in place, and an operation that
\* issues a PUT had staged more than a cap holds.
C32_Step ==
    /\ nops' = nops + 1
    /\ lastop' \in MutatingOps
    /\ ret' \notin ErrorCodes

RECURSIVE C32_Strip(_)
C32_Strip(meta) ==
    IF meta # <<>> /\ meta[Len(meta)].type = "LOG_INODE"
    THEN C32_Strip(SubSeq(meta, 1, Len(meta) - 1))
    ELSE meta

C32_Over(meta, data) ==
    MetaBytes(meta) > meta_log_len \/ Len(data) > data_log_len

C32_FlushAtCap ==
    [][C32_Step =>
         IF nput' = nput
         THEN /\ ~C32_Over(meta_log', data_log')
              /\ this_index' = this_index
              /\ store' = store
              /\ IsPrefix(meta_log, meta_log')
              /\ IsPrefix(data_log, data_log')
         ELSE \E sealed \in {IF ret' = -EIO
                             THEN [meta |-> meta_log', data |-> data_log']
                             ELSE store'[this_index]} :
                \E staged \in {C32_Strip(sealed.meta)} :
                   C32_Over(IF Len(staged) < Len(meta_log) THEN meta_log ELSE staged,
                            sealed.data)]_vars

\* a write has staged more than a cap holds and maybe_write has flushed
C32_Witness ==
    /\ lastop = "write"
    /\ ret > 0
    /\ meta_log = <<>>
    /\ data_log = <<>>
    /\ flushed # <<>>
    /\ flushed[Len(flushed)] + 1 = this_index

\* C33: every flush appends one LOG_INODE record for each inode in the dirty
\* set to what was staged and leaves the dirty set empty, and the object it
\* PUTs has hdr_len = sizeof(obj_header) + meta_used, those records included,
\* and the this_index of its key.  Stated for the flushes of fs_fsync, whose
\* dirty set and staged records are those of the state before the call.
C33_FlushStep ==
    /\ nops' = nops + 1
    /\ lastop' = "fsync"
    /\ nput' > nput

C33_Sealed == IF ret' = -EIO THEN meta_log' ELSE store'[this_index].meta

C33_Added(meta) == SubSeq(meta, Len(meta_log) + 1, Len(meta))

C33_FlushWritesDirty ==
    [][C33_FlushStep =>
         /\ dirty_inodes' = {}
         /\ IsPrefix(meta_log, C33_Sealed)
         /\ \E added \in {C33_Added(C33_Sealed)} :
              /\ Len(added) = Cardinality(dirty_inodes)
              /\ \A n \in 1..Len(added) : added[n].type = "LOG_INODE"
              /\ \A i \in dirty_inodes \cap DOMAIN inode_map :
                    Cardinality({n \in 1..Len(added) :
                                   /\ added[n].inum = inode_map[i].inum
                                   /\ added[n].mode = inode_map[i].mode}) = 1
         /\ nfail' < nfail + 2 =>
              /\ this_index \in DOMAIN store'
              /\ store'[this_index].this_index = this_index
              /\ store'[this_index].meta = C33_Sealed
              /\ store'[this_index].hdr_len
                   = SizeofObjHeader + MetaBytes(C33_Sealed)]_vars

\* an fs_fsync has written out the records of two dirty inodes
C33_Witness ==
    /\ lastop = "fsync"
    /\ ret = 0
    /\ dirty_inodes = {}
    /\ this_index - 1 \in DOMAIN store
    /\ \E meta \in {store[this_index - 1].meta} :
         /\ Len(meta) >= 3
         /\ meta[Len(meta)].type = "LOG_INODE"
         /\ meta[Len(meta) - 1].type = "LOG_INODE"
         /\ meta[Len(meta)].inum # meta[Len(meta) - 1].inum
         /\ meta[Len(meta) - 2].type # "LOG_INODE"

\* C34: every log record appended to the meta buffer has a len field equal to
\* the number of payload bytes appended after its 2-byte header, so that
\* replay, which advances by 2 + len, lands on the start of the next record.
C34_LenIsPayload(rec) == rec.len = rec.nbytes - SizeofLogRecord

C34_RecordLenExact ==
    /\ \A n \in 1..Len(meta_log) : C34_LenIsPayload(meta_log[n])
    /\ \A k \in DOMAIN store : \A n \in 1..Len(store[k].meta) :
          C34_LenIsPayload(store[k].meta[n])

\* C35: extents never dangle: in every reachable state, after a failed PUT
\* included, every extent (obj, off, len) of a file's map either has obj =
\* this_index and off + len <= data_used, or has obj < this_index with object
\* obj in the store and off + len within its file-data region.
C35_InStaging(e) ==
    /\ e.objnum = this_index
    /\ e.offset + e.len <= data_offset

C35_InStore(e) ==
    /\ e.objnum < this_index
    /\ e.objnum \in DOMAIN store
    /\ e.offset + e.len <= Len(store[e.objnum].data)

C35_ExtentsNeverDangle ==
    mounted =>
       \A i \in DOMAIN inode_map : \A k \in DOMAIN inode_map[i].extents :
          \/ C35_InStaging(inode_map[i].extents[k])
          \/ C35_InStore(inode_map[i].extents[k])

\* C36: every LOG_TRUNC record of the log is accepted by replay: when the
\* records of the stored objects and of the meta buffer are replayed in order,
\* at each LOG_TRUNC(inum, new_size) the replayed file exists and its replayed
\* size is at least new_size.  The replay goes on past a record of another
\* type that its handler refuses.
RECURSIVE C36_Log(_, _)
C36_Log(st, keys) ==
    IF keys = <<>> THEN <<>>
    ELSE [i \in 1..Len(st[Head(keys)].meta) |->
             [idx |-> Head(keys), rec |-> st[Head(keys)].meta[i]]]
         \o C36_Log(st, Tail(keys))

RECURSIVE C36_Accepts(_, _)
C36_Accepts(st, log) ==
    IF log = <<>> THEN TRUE
    ELSE LET go(r) ==
                 IF Head(log).rec.type = "LOG_TRUNC" /\ ~r.ok THEN FALSE
                 ELSE C36_Accepts(r.st, Tail(log))
         IN go(read_record(st, Head(log).idx, Head(log).rec))

C36_TruncAccepted ==
    mounted =>
        C36_Accepts([imap |-> EmptyMap, next |-> 2],
                    C36_Log(store, SetToSeq(DOMAIN store))
                    \o [i \in 1..Len(meta_log) |->
                           [idx |-> this_index, rec |-> meta_log[i]]])

\* C37: inode numbers are never reused: in every reachable state next_inode
\* is greater than every inum of the inode table and every inum a directory
\* entry refers to.
C37_Inums ==
    DOMAIN inode_map
    \cup UNION {{inode_map[i].dirents[n] : n \in DOMAIN inode_map[i].dirents} :
                  i \in {j \in DOMAIN inode_map : inode_map[j].type = OBJ_DIR}}

C37_InumsNeverReused ==
    mounted => \A i \in C37_Inums : i < next_inode

\* C38: every inode reference in the dirty set refers to an inode that is
\* still present in the inode table.
C38_DirtyInodesLive ==
    mounted => dirty_inodes \subseteq DOMAIN inode_map

\* C39: the staging tails never pass the allocated buffers: after every step
\* data_used <= data_log_len and meta_used <= 2 * meta_log_len, and the data
\* tail that make_record leaves in fs_write, before maybe_write looks at it, is
\* within data_log_len as well.
C39_WriteStep(path, len, offset) ==
    /\ fs_write(path, nops, len, offset)
    /\ lastop' = "write"
    /\ ret' \in {len, -EIO}

C39_TailsWithinBuffers ==
    [][/\ mounted' => /\ Len(data_log') <= data_log_len
                      /\ MetaBytes(meta_log') <= 2 * meta_log_len
       /\ \A path \in Paths : \A len \in 0..MaxLen : \A offset \in 0..MaxOff :
            C39_WriteStep(path, len, offset) =>
               Len(data_log) + len <= data_log_len]_vars

\* C40: the truncate loop terminates: every iteration either erases an entry
\* with key >= new_size or shortens the entry that contains new_size, after
\* which lookup(new_size) no longer returns that entry; every iteration
\* lowers C40_Left, a count that is never negative, so the loop ends after
\* at most C40_Left iterations.
C40_Left(m, new_size) ==
    Cardinality({k \in DOMAIN m : k >= new_size})
    + (IF \E k \in DOMAIN m : /\ k < new_size
                              /\ \A j \in DOMAIN m : j < new_size => j <= k
                              /\ k + m[k].len > new_size
       THEN 2 ELSE 0)

C40_Progress(m, m2, new_size) ==
    \E it \in DOMAIN m :
       /\ \/ it >= new_size /\ m2 = MapErase(m, it)
          \/ /\ it < new_size
             /\ it + m[it].len > new_size
             /\ it \in DOMAIN m2
             /\ m2[it].len = new_size - it
             /\ lookup(m2, new_size) # it
       /\ C40_Left(m2, new_size) < C40_Left(m, new_size)

C40_DoTruncTerminates ==
    [][\A t \in Threads :
         do_trunc_iterate(t) =>
            C40_Progress(inode_map[callers[t].inum].extents,
                         inode_map'[callers[t].inum].extents,
                         callers[t].new_size)]_vars

\* a thread is in the loop after an iteration that shortened the entry
\* containing new_size, with the rest of that entry still to erase
C40_Witness ==
    \E t \in Threads :
       /\ In(t, "do_trunc")
       /\ callers[t].looped
       /\ \E m \in {inode_map[callers[t].inum].extents} :
            \E n \in {callers[t].new_size} :
               /\ n \in DOMAIN m
               /\ \E k \in DOMAIN m : k < n /\ k + m[k].len = n /\ m[k].len > 0
               /\ \E k \in DOMAIN m : k > n

====
